---- MODULE Spec2Model ----
(***************************************************************************)
(* HexaGate: the connection admission-control layer.                       *)
(*   - PolicyManager (src/src/security/index.ts): security policies and    *)
(*     evaluateConnection                                                  *)
(*   - UnifiedRouter and NetworkHandler (src/unnamed/part_005, the routing *)
(*     module): handler registry, route, selectNetworkForSecurity          *)
(*   - PKIManager, SecurityLevelManager, AgentRegistry and                 *)
(*     AgentTaskManager (src/src/security/index.ts)                        *)
(*   - HandleResolver and the HexaGate facade (src/src/handles/index.ts)   *)
(* Strings are TLA+ strings; an optional value (TypeScript `x?: T`,        *)
(* `T | null`, `T | undefined`) is the empty sequence or <<value>>.        *)
(***************************************************************************)
EXTENDS Integers, Sequences, FiniteSets, TLC

VARIABLES
    policies,        \* PolicyManager.policies: id -> SecurityPolicy
    activePolicies,  \* PolicyManager.activePolicies: a Set, kept in insertion order
    pristine,        \* no policy created, activated, deactivated or removed yet
    nextPolicyId,    \* number of ids generatePolicyId has handed out
    tlsIn,           \* the (version, minVersion) pair under test in SpecTls
    handlers,        \* UnifiedRouter.handlers: the Map's handler objects in insertion order
    objs,            \* handler objects no longer registered that a call in flight still holds
    defaultNetwork,  \* UnifiedRouter.defaultNetwork
    calls,           \* the asynchronous calls in flight: one record per caller
    ret,             \* what the most recent completed operation returned
    certificates,    \* PKIManager.certificates: the Map's certificates in insertion order
    trustedIssuers,  \* PKIManager.trustedIssuers
    now,             \* the clock, in milliseconds: what new Date() and Date.now() read
    currentLevel,    \* SecurityLevelManager.currentLevel
    levelConfigs,    \* SecurityLevelManager.levelConfigs: level -> SecurityLevelConfig
    agents,          \* AgentRegistry.agents: id -> Agent
    runningAgents,   \* AgentRegistry.runningAgents
    nextAgentId,     \* number of ids generateAgentId has handed out
    handles,         \* HandleResolver.handles: normalized name -> Handle
    aliasMap,        \* HandleResolver.aliasMap: normalized alias -> normalized name
    initialized,     \* HexaGate.initialized
    facade,          \* the HexaGate call each caller has in flight, if any
    tasks,           \* AgentTaskManager.tasks: id -> AgentTask
    taskQueue,       \* AgentTaskManager.taskQueue: task ids, oldest first
    nextTaskId       \* number of ids generateTaskId has handed out

policyVars == <<policies, activePolicies, pristine, nextPolicyId>>
routerVars == <<handlers, objs, defaultNetwork, calls>>
pkiVars == <<certificates, trustedIssuers, now>>
levelVars == <<currentLevel, levelConfigs>>
agentVars == <<agents, runningAgents, nextAgentId>>
handleVars == <<handles, aliasMap>>
gateVars == <<initialized, facade>>
taskVars == <<tasks, taskQueue, nextTaskId>>
\* the components of the HexaGate facade other than router, policies and pki
facadeVars == <<levelVars, agentVars, handleVars, gateVars, taskVars>>
vars == <<policies, activePolicies, pristine, nextPolicyId, tlsIn,
          handlers, objs, defaultNetwork, calls, ret,
          certificates, trustedIssuers, now,
          currentLevel, levelConfigs, agents, runningAgents, nextAgentId,
          handles, aliasMap, initialized, facade,
          tasks, taskQueue, nextTaskId>>

(***************************************************************************)
(* Optional values and strings                                             *)
(***************************************************************************)
None == <<>>
Some(v) == <<v>>
IsSome(o) == Len(o) > 0
Get(o) == o[1]

Char(s, i) == SubSeq(s, i, i)

\* String.prototype.includes
Includes(s, sub) ==
    \E i \in 1..(Len(s) - Len(sub) + 1) : SubSeq(s, i, i + Len(sub) - 1) = sub

Digits == {"0", "1", "2", "3", "4", "5", "6", "7", "8", "9"}
IsDigit(c) == c \in Digits
DigitVal(c) ==
    CASE c = "0" -> 0 [] c = "1" -> 1 [] c = "2" -> 2 [] c = "3" -> 3
      [] c = "4" -> 4 [] c = "5" -> 5 [] c = "6" -> 6 [] c = "7" -> 7
      [] c = "8" -> 8 [] c = "9" -> 9

RECURSIVE Pow10(_)
Pow10(n) == IF n = 0 THEN 1 ELSE 10 * Pow10(n - 1)

\* the value of a run of decimal digits ("" is 0)
RECURSIVE DecimalValue(_)
DecimalValue(s) ==
    IF Len(s) = 0 THEN 0
    ELSE 10 * DecimalValue(SubSeq(s, 1, Len(s) - 1)) + DigitVal(Char(s, Len(s)))

\* the end of the longest run of digits of s that starts at position i
\* (i - 1 when s has no digit at i): what the greedy \d+ consumes
RECURSIVE DigitRunEnd(_, _)
DigitRunEnd(s, i) ==
    IF i <= Len(s) /\ IsDigit(Char(s, i)) THEN DigitRunEnd(s, i + 1) ELSE i - 1

(***************************************************************************)
(* PolicyManager                                                           *)
(***************************************************************************)
EnforcementLevels == {"warn", "block", "strict"}
RuleActions == {"allow", "deny", "prompt"}

\* SecurityRule; metadata?.minVersion and metadata?.weakCiphers are optional
Rule(type, condition, action, minVersion, weakCiphers) ==
    [type |-> type, condition |-> condition, action |-> action,
     minVersion |-> minVersion, weakCiphers |-> weakCiphers]

DefaultPolicyId == "default-anti-downgrade"

antiDowngradePolicy ==
    [id |-> DefaultPolicyId,
     name |-> "Anti-Downgrade Protection",
     rules |-> << Rule("anti-downgrade", "tls_version < 1.2", "deny", Some("1.2"), None),
                  Rule("anti-downgrade", "cipher_suite in weak_ciphers", "deny", None,
                       Some(<<"RC4", "DES", "3DES", "MD5">>)),
                  Rule("anti-downgrade", "certificate_expired", "deny", None, None) >>,
     enforcementLevel |-> "strict"]

\* The mutant: the default policy is stored but not activated.
initializeDefaultPolicies_NotActivated ==
    /\ policies = (DefaultPolicyId :> antiDowngradePolicy)
    /\ activePolicies = <<>>

\* constructor -> initializeDefaultPolicies
initializeDefaultPolicies ==
    /\ policies = (DefaultPolicyId :> antiDowngradePolicy)
    /\ activePolicies = <<DefaultPolicyId>>

\* parseVersion, the closure of compareTlsVersions: the first match of
\* /(\d+)\.?(\d+)?/ in v, read by parseFloat as "<group 1>.<group 2, or 0>".
\* The result is the exact decimal value as <<numerator, denominator>>
\* (the versions of the model have few digits, so the double that parseFloat
\* returns orders and subtracts as the decimal does).
parseVersion(v) ==
    LET starts == {i \in 1..Len(v) : IsDigit(Char(v, i))}
    IN  IF starts = {} THEN <<0, 1>>
        ELSE
          LET s1  == CHOOSE i \in starts : \A j \in starts : i <= j
              e1  == DigitRunEnd(v, s1)
              dot == e1 + 1 <= Len(v) /\ Char(v, e1 + 1) = "."
              s2  == IF dot THEN e1 + 2 ELSE e1 + 1
              e2  == DigitRunEnd(v, s2)
              g1  == SubSeq(v, s1, e1)
              g2  == IF e2 >= s2 THEN SubSeq(v, s2, e2) ELSE "0"
          IN  <<DecimalValue(g1) * Pow10(Len(g2)) + DecimalValue(g2), Pow10(Len(g2))>>

\* compareTlsVersions: parseVersion(version) - parseVersion(minVersion), here
\* multiplied by the two (positive) denominators, which keeps its sign
compareTlsVersions(version, minVersion) ==
    LET a == parseVersion(version)
        b == parseVersion(minVersion)
    IN  a[1] * b[2] - b[1] * a[2]

\* a JavaScript string used as a condition: undefined and "" are falsy
Truthy(o) == IsSome(o) /\ Len(Get(o)) > 0

\* ConnectionContext (url is never read by the engine)
Context(tlsVersion, cipherSuite, certificate, certificateExpired) ==
    [tlsVersion |-> tlsVersion, cipherSuite |-> cipherSuite,
     certificate |-> certificate, certificateExpired |-> certificateExpired]

evaluateAntiDowngrade(rule, context) ==
    LET minVersion  == IF IsSome(rule.minVersion) THEN Get(rule.minVersion) ELSE "1.2"
        weakCiphers == IF IsSome(rule.weakCiphers) THEN Get(rule.weakCiphers) ELSE <<>>
    IN  IF /\ rule.condition = "tls_version < 1.2"
           /\ Truthy(context.tlsVersion)
           /\ compareTlsVersions(Get(context.tlsVersion), minVersion) < 0
        THEN Some("TLS version " \o Get(context.tlsVersion)
                    \o " is below minimum " \o minVersion)
        ELSE IF /\ rule.condition = "cipher_suite in weak_ciphers"
                /\ Truthy(context.cipherSuite)
                /\ \E k \in 1..Len(weakCiphers) :
                       Includes(Get(context.cipherSuite), weakCiphers[k])
        THEN Some("Weak cipher suite detected: " \o Get(context.cipherSuite))
        ELSE IF /\ rule.condition = "certificate_expired"
                /\ context.certificateExpired = Some(TRUE)
        THEN Some("Certificate has expired")
        ELSE None

\* The mutant: a context without certificate counts as untrusted.
evaluateCertificate_MissingIsUntrusted(rule, context) ==
    IF rule.condition = "untrusted"
          /\ (~IsSome(context.certificate) \/ ~Get(context.certificate).trusted)
    THEN Some("Certificate is not trusted")
    ELSE None

evaluateCertificate(rule, context) ==
    IF ~IsSome(context.certificate) THEN None
    ELSE IF rule.condition = "untrusted" /\ ~Get(context.certificate).trusted
    THEN Some("Certificate is not trusted")
    ELSE None

\* The mutant: a rule of any other type always triggers.
evaluateRule_OtherTypesFire(rule, context) ==
    CASE rule.type = "anti-downgrade" -> evaluateAntiDowngrade(rule, context)
      [] rule.type = "certificate"    -> evaluateCertificate(rule, context)
      [] OTHER                        -> Some("Rule " \o rule.condition \o " failed")

evaluateRule(rule, context) ==
    CASE rule.type = "anti-downgrade" -> evaluateAntiDowngrade(rule, context)
      [] rule.type = "certificate"    -> evaluateCertificate(rule, context)
      [] OTHER                        -> None

\* getActivePolicies: the active ids in insertion order, those without a
\* stored policy filtered out
getActivePoliciesIn(ps, active) ==
    LET ids == SelectSeq(active, LAMBDA id : id \in DOMAIN ps)
    IN  [k \in 1..Len(ids) |-> ps[ids[k]]]
getActivePolicies == getActivePoliciesIn(policies, activePolicies)

PolicyViolation(policy, rule, message) ==
    [policyId |-> policy.id, policyName |-> policy.name, rule |-> rule,
     message |-> message]

\* The mutant: the enforcement level is not consulted.
isBlocking_IgnoresLevel(policy, rule) ==
    rule.action = "deny"

\* The mutant: the rule's action is not consulted.
isBlocking_IgnoresAction(policy, rule) ==
    policy.enforcementLevel # "warn"

\* the test of evaluateConnection that sends a triggered rule to violations
isBlocking(policy, rule) ==
    rule.action = "deny" /\ policy.enforcementLevel # "warn"

\* The mutant: the loop over a policy's rules stops at the first triggered rule.
RECURSIVE evaluatePolicy_ShortCircuit(_, _, _, _)
evaluatePolicy_ShortCircuit(policy, k, context, results) ==
    IF k > Len(policy.rules) THEN results
    ELSE
      LET rule      == policy.rules[k]
          violation == evaluateRule(rule, context)
      IN  IF ~Truthy(violation)
          THEN evaluatePolicy_ShortCircuit(policy, k + 1, context, results)
          ELSE IF isBlocking(policy, rule)
          THEN [results EXCEPT
                  !.allowed = FALSE,
                  !.violations = Append(@, PolicyViolation(policy, rule, Get(violation)))]
          ELSE [results EXCEPT
                  !.warnings = Append(@, PolicyViolation(policy, rule, Get(violation)))]

\* The mutant: a triggered rule whose action is allow sets allowed back to true.
RECURSIVE evaluatePolicy_AllowOverrides(_, _, _, _)
evaluatePolicy_AllowOverrides(policy, k, context, results) ==
    IF k > Len(policy.rules) THEN results
    ELSE
      LET rule      == policy.rules[k]
          violation == evaluateRule(rule, context)
          next ==
            IF ~Truthy(violation) THEN results
            ELSE IF isBlocking(policy, rule)
            THEN [results EXCEPT
                    !.allowed = FALSE,
                    !.violations = Append(@, PolicyViolation(policy, rule, Get(violation)))]
            ELSE [results EXCEPT
                    !.allowed = IF rule.action = "allow" THEN TRUE ELSE @,
                    !.warnings = Append(@, PolicyViolation(policy, rule, Get(violation)))]
      IN  evaluatePolicy_AllowOverrides(policy, k + 1, context, next)

\* the inner loop of evaluateConnection: the rules of one policy, from rule k
RECURSIVE evaluatePolicy(_, _, _, _)
evaluatePolicy(policy, k, context, results) ==
    IF k > Len(policy.rules) THEN results
    ELSE
      LET rule      == policy.rules[k]
          violation == evaluateRule(rule, context)
          next ==
            IF ~Truthy(violation) THEN results
            ELSE IF isBlocking(policy, rule)
            THEN [results EXCEPT
                    !.allowed = FALSE,
                    !.violations = Append(@, PolicyViolation(policy, rule, Get(violation)))]
            ELSE [results EXCEPT
                    !.warnings = Append(@, PolicyViolation(policy, rule, Get(violation)))]
      IN  evaluatePolicy(policy, k + 1, context, next)

\* the outer loop of evaluateConnection: the active policies, from policy p
RECURSIVE evaluatePolicies(_, _, _, _)
evaluatePolicies(active, p, context, results) ==
    IF p > Len(active) THEN results
    ELSE evaluatePolicies(active, p + 1, context,
                          evaluatePolicy(active[p], 1, context, results))

evaluateConnection(context) ==
    evaluatePolicies(getActivePolicies, 1, context,
                     [allowed |-> TRUE, violations |-> <<>>, warnings |-> <<>>])

(***************************************************************************)
(* PolicyManager: the operations                                           *)
(***************************************************************************)
\* how many policies createPolicy may create in one run of the model
MaxPolicies == 1
\* the number of createPolicy calls in SpecStore
MaxStored == 2

\* generatePolicyId: `policy_${Date.now()}_${Math.random()...}`, taken to be
\* distinct from call to call
generatePolicyId_Constant == "policy_1"
generatePolicyId == "policy_" \o ToString(nextPolicyId + 1)

AllPolicyIds == {DefaultPolicyId} \cup {"policy_" \o ToString(n) : n \in 1..MaxStored}

\* Set.prototype.add and delete on a Set kept in insertion order
SetAdd(seq, x) == IF \E k \in 1..Len(seq) : seq[k] = x THEN seq ELSE Append(seq, x)
SetDelete(seq, x) == SelectSeq(seq, LAMBDA y : y # x)
SetHas(seq, x) == \E k \in 1..Len(seq) : seq[k] = x

\* the rules createPolicy is called with
NetworkRule   == Rule("network", "require_https", "deny", None, None)
CustomRule    == Rule("custom", "anything", "allow", None, None)
Tls13Rule     == Rule("anti-downgrade", "tls_version < 1.2", "deny", Some("1.3"), None)
CipherRule    == Rule("anti-downgrade", "cipher_suite in weak_ciphers", "prompt", None,
                      Some(<<"RC4", "MD5">>))
ExpiredRule   == Rule("anti-downgrade", "certificate_expired", "allow", None, None)
UntrustedRule == Rule("certificate", "untrusted", "deny", None, None)
RuleLists ==
    { <<>>,
      <<NetworkRule, CustomRule>>,
      <<Tls13Rule, CipherRule>>,
      <<ExpiredRule, UntrustedRule>> }
PolicyNames == {"Test"}

\* the contexts evaluateConnection is called with
Certificates == {[subject |-> "example.com", trusted |-> t] : t \in BOOLEAN}
Contexts ==
    { Context(t, c, crt, e) :
        t   \in {None, Some("1.0"), Some("1.3")},
        c   \in {None, Some("RC4-SHA")},
        crt \in {None} \cup {Some(x) : x \in Certificates},
        e   \in {None, Some(TRUE)} }

\* The mutant: the new policy is activated on creation.
CreatePolicy_Activates(name, rules, enforcementLevel) ==
    /\ LET policy == [id |-> generatePolicyId, name |-> name, rules |-> rules,
                      enforcementLevel |-> enforcementLevel]
       IN  /\ policies' = (policy.id :> policy) @@ policies
           /\ activePolicies' = SetAdd(activePolicies, policy.id)
           /\ ret' = [op |-> "createPolicy", result |-> policy]
    /\ nextPolicyId' = nextPolicyId + 1
    /\ pristine' = FALSE
    /\ UNCHANGED <<tlsIn, routerVars, pkiVars, facadeVars>>

CreatePolicy(name, rules, enforcementLevel) ==
    /\ LET policy == [id |-> generatePolicyId, name |-> name, rules |-> rules,
                      enforcementLevel |-> enforcementLevel]
       IN  /\ policies' = (policy.id :> policy) @@ policies
           /\ ret' = [op |-> "createPolicy", result |-> policy]
    /\ nextPolicyId' = nextPolicyId + 1
    /\ pristine' = FALSE
    /\ UNCHANGED <<activePolicies, tlsIn, routerVars, pkiVars, facadeVars>>

\* The mutant: the id is activated without looking it up.
ActivatePolicy_Unchecked(id) ==
    /\ activePolicies' = SetAdd(activePolicies, id)
    /\ ret' = [op |-> "activatePolicy", id |-> id, result |-> TRUE]
    /\ pristine' = FALSE
    /\ UNCHANGED <<policies, nextPolicyId, tlsIn, routerVars, pkiVars, facadeVars>>

ActivatePolicy(id) ==
    /\ IF id \notin DOMAIN policies
       THEN /\ ret' = [op |-> "activatePolicy", id |-> id, result |-> FALSE]
            /\ UNCHANGED activePolicies
       ELSE /\ activePolicies' = SetAdd(activePolicies, id)
            /\ ret' = [op |-> "activatePolicy", id |-> id, result |-> TRUE]
    /\ pristine' = FALSE
    /\ UNCHANGED <<policies, nextPolicyId, tlsIn, routerVars, pkiVars, facadeVars>>

DeactivatePolicy(id) ==
    /\ activePolicies' = SetDelete(activePolicies, id)
    /\ ret' = [op |-> "deactivatePolicy", id |-> id,
               result |-> SetHas(activePolicies, id)]
    /\ pristine' = FALSE
    /\ UNCHANGED <<policies, nextPolicyId, tlsIn, routerVars, pkiVars, facadeVars>>

\* The mutant: the id is left in the active set.
RemovePolicy_KeepsActive(id) ==
    /\ policies' = [k \in DOMAIN policies \ {id} |-> policies[k]]
    /\ ret' = [op |-> "removePolicy", id |-> id, result |-> id \in DOMAIN policies,
               wasActive |-> SetHas(activePolicies, id)]
    /\ pristine' = FALSE
    /\ UNCHANGED <<activePolicies, nextPolicyId, tlsIn, routerVars, pkiVars, facadeVars>>

RemovePolicy(id) ==
    /\ activePolicies' = SetDelete(activePolicies, id)
    /\ policies' = [k \in DOMAIN policies \ {id} |-> policies[k]]
    /\ ret' = [op |-> "removePolicy", id |-> id, result |-> id \in DOMAIN policies,
               wasActive |-> SetHas(activePolicies, id)]
    /\ pristine' = FALSE
    /\ UNCHANGED <<nextPolicyId, tlsIn, routerVars, pkiVars, facadeVars>>

\* getPolicy: this.policies.get(id) ?? null
getPolicyIn(ps, id) == IF id \in DOMAIN ps THEN Some(ps[id]) ELSE None
getPolicy(id) == getPolicyIn(policies, id)

GetPolicy(id) ==
    /\ ret' = [op |-> "getPolicy", id |-> id, result |-> getPolicy(id)]
    /\ UNCHANGED <<policyVars, tlsIn, routerVars, pkiVars, facadeVars>>

EvaluateConnection(context) ==
    /\ ret' = [op |-> "evaluateConnection", context |-> context,
               result |-> evaluateConnection(context)]
    /\ UNCHANGED <<policyVars, tlsIn, routerVars, pkiVars, facadeVars>>

(***************************************************************************)
(* NetworkHandler                                                          *)
(***************************************************************************)
NetworkTypes == {"clearnet", "tor", "i2p", "gnunet", "dvpn", "custom"}
SecurityLevels == {"standard", "elevated", "maximum"}
ConnectionStates == {"disconnected", "connecting", "connected", "error"}

\* A handler object: its config (type, enabled), its state, and which class it
\* is.  "simulated" is one of the six classes of the routing module, whose
\* connect() completes without suspending and always succeeds; "external" is
\* any other subclass of the abstract NetworkHandler, whose connect() suspends
\* while it negotiates and may resolve true, resolve false or throw, and whose
\* route() may throw.
HandlerKinds == {"simulated", "external"}
NewHandler(type, enabled, kind) ==
    [type |-> type, enabled |-> enabled, kind |-> kind, state |-> "disconnected"]

getState(h) == h.state
getType(h) == h.type

\* The mutant: every handler counts as enabled.
isEnabled_Always(h) == TRUE

isEnabled(h) == h.enabled

\* The mutant: connect() does not pass through connecting.
connectAssigns_Direct(h) == <<"connected">>

\* the values that connect() of the six classes assigns to this.state, in order
connectAssigns(h) == <<"connecting", "connected">>

\* The mutant: connect() on a connected handler reports failure.
connect_RejectsConnected(h) ==
    IF h.state = "connected"
    THEN [handler |-> [h EXCEPT !.state = "error"], result |-> FALSE]
    ELSE [handler |-> [h EXCEPT !.state = "connected"], result |-> TRUE]

\* connect() of the six classes: the handler once the call is over and the
\* value it resolves; the body does not suspend between its assignments
connect(h) ==
    [handler |-> [h EXCEPT !.state = connectAssigns(h)[Len(connectAssigns(h))]],
     result |-> TRUE]

\* disconnect() of the six classes
disconnect(h) == [h EXCEPT !.state = "disconnected"]

\* route(address) of the six classes, each with its default configuration;
\* an external handler's descriptor is its own business
handlerRoute(h, address) ==
    IF h.kind = "external" THEN "external://" \o address
    ELSE CASE h.type = "clearnet" -> address
           [] h.type = "tor"      -> "socks5://127.0.0.1:9050" \o "/" \o address
           [] h.type = "i2p"      -> "http://127.0.0.1:4444" \o "/" \o address
           [] h.type = "gnunet"   -> "gnunet://" \o address
           [] h.type = "dvpn"     -> "dvpn://node" \o "/" \o address
           [] h.type = "custom"   -> "custom://" \o address

(***************************************************************************)
(* UnifiedRouter: the registry                                             *)
(***************************************************************************)
\* Map.prototype.has / get on this.handlers: the position of the entry whose
\* key is type, 0 when there is none
IndexIn(hs, type) ==
    IF \E k \in 1..Len(hs) : hs[k].type = type
    THEN CHOOSE k \in 1..Len(hs) : hs[k].type = type
    ELSE 0
IndexOf(type) == IndexIn(handlers, type)
has(type) == IndexOf(type) # 0
getRegisteredNetworks == [k \in 1..Len(handlers) |-> handlers[k].type]
Registered == {handlers[k].type : k \in 1..Len(handlers)}

Callers == DOMAIN calls
Idle == [pc |-> "idle"]
InFlight(c) == calls[c].pc # "idle"

\* A call in flight holds its handler object: ref.idx = 0 while the object is
\* the registered handler of ref.type, and ref.idx = k once it is objs[k]
RegRef(type) == [type |-> type, idx |-> 0]
HoldsRef(c) == calls[c].pc \in {"connecting", "awaitConnect", "awaitRoute"}
Deref(ref) == IF ref.idx = 0 THEN handlers[IndexOf(ref.type)] ELSE objs[ref.idx]

\* the handler objects after state s is assigned to the object behind ref
WithState(ref, s) ==
    IF ref.idx = 0
    THEN <<[handlers EXCEPT ![IndexOf(ref.type)].state = s], objs>>
    ELSE <<handlers, [objs EXCEPT ![ref.idx].state = s]>>

\* The registered handler of `type` leaves the Map (deleted or replaced):
\* the calls in flight that hold it keep the object, now objs[Len(objs) + 1]
Held(type) == \E c \in Callers : HoldsRef(c) /\ calls[c].ref = RegRef(type)
DetachObjs(type) ==
    IF has(type) /\ Held(type) THEN Append(objs, handlers[IndexOf(type)]) ELSE objs
DetachCalls(type) ==
    [c \in Callers |->
        IF HoldsRef(c) /\ calls[c].ref = RegRef(type)
        THEN [calls[c] EXCEPT !.ref = [type |-> type, idx |-> Len(objs) + 1]]
        ELSE calls[c]]

\* An entry leaves the Map while a for-of loop over it is suspended: the loop
\* goes on from the same entry (pos counts the entries it has passed)
ShiftIterators(cs, type) ==
    [c \in Callers |->
        IF cs[c].pc \in {"iterating", "connectAll"} /\ has(type) /\ IndexOf(type) <= cs[c].pos
        THEN [cs[c] EXCEPT !.pos = @ - 1]
        ELSE cs[c]]

\* Caller c lets go of the object behind ref: an object of objs that no other
\* call holds is dropped, and the later ones move down
StillHeld(c, ref) == \E d \in Callers \ {c} : HoldsRef(d) /\ calls[d].ref = ref
ReleaseObjs(c, ref) ==
    IF ref.idx = 0 \/ StillHeld(c, ref) THEN objs
    ELSE [k \in 1..(Len(objs) - 1) |-> IF k < ref.idx THEN objs[k] ELSE objs[k + 1]]
ReleaseCalls(c, ref) ==
    [d \in Callers |->
        IF d = c THEN Idle
        ELSE IF /\ ref.idx # 0 /\ ~StillHeld(c, ref)
                /\ HoldsRef(d) /\ calls[d].ref.idx > ref.idx
        THEN [calls[d] EXCEPT !.ref.idx = @ - 1]
        ELSE calls[d]]

\* getHandler(type): the handler object, or undefined
getHandlerIn(hs, type) ==
    IF IndexIn(hs, type) # 0 THEN Some(hs[IndexIn(hs, type)]) ELSE None
getHandler(type) == getHandlerIn(handlers, type)

\* The mutant: a type that has a handler keeps it.
RegisterHandler_KeepsFirst(type, enabled, kind) ==
    /\ LET h == NewHandler(type, enabled, kind)
       IN  handlers' = IF has(type) THEN handlers ELSE Append(handlers, h)
    /\ objs' = objs
    /\ calls' = calls
    /\ ret' = [op |-> "registerHandler", type |-> type]
    /\ UNCHANGED <<defaultNetwork, policyVars, tlsIn, pkiVars, facadeVars>>

\* registerHandler(new XHandler(config)): this.handlers.set(handler.getType(), handler)
RegisterHandler(type, enabled, kind) ==
    /\ LET h == NewHandler(type, enabled, kind)
       IN  handlers' = IF has(type) THEN [handlers EXCEPT ![IndexOf(type)] = h]
                       ELSE Append(handlers, h)
    /\ objs' = DetachObjs(type)
    /\ calls' = DetachCalls(type)
    /\ ret' = [op |-> "registerHandler", type |-> type]
    /\ UNCHANGED <<defaultNetwork, policyVars, tlsIn, pkiVars, facadeVars>>

\* unregisterHandler(type): this.handlers.delete(type)
UnregisterHandler(type) ==
    /\ handlers' = SelectSeq(handlers, LAMBDA h : h.type # type)
    /\ objs' = DetachObjs(type)
    /\ calls' = ShiftIterators(DetachCalls(type), type)
    /\ ret' = [op |-> "unregisterHandler", type |-> type, result |-> has(type)]
    /\ UNCHANGED <<defaultNetwork, policyVars, tlsIn, pkiVars, facadeVars>>

\* setDefaultNetwork(type): throws when type has no handler
SetDefaultNetwork(type) ==
    /\ IF ~has(type)
       THEN /\ ret' = [op |-> "setDefaultNetwork", type |-> type, threw |-> TRUE]
            /\ UNCHANGED defaultNetwork
       ELSE /\ defaultNetwork' = type
            /\ ret' = [op |-> "setDefaultNetwork", type |-> type, threw |-> FALSE]
    /\ UNCHANGED <<handlers, objs, calls, policyVars, tlsIn, pkiVars, facadeVars>>

\* The mutant: the two preferences of level maximum are swapped.
selectNetworkForSecurity_I2pFirst(level) ==
    CASE level = "maximum" ->
           IF has("i2p") THEN "i2p"
           ELSE IF has("tor") THEN "tor"
           ELSE defaultNetwork
      [] level = "elevated" ->
           IF has("dvpn") THEN "dvpn"
           ELSE IF has("gnunet") THEN "gnunet"
           ELSE IF has("tor") THEN "tor"
           ELSE defaultNetwork
      [] OTHER -> defaultNetwork

selectNetworkForSecurity(level) ==
    CASE level = "maximum" ->
           IF has("tor") THEN "tor"
           ELSE IF has("i2p") THEN "i2p"
           ELSE defaultNetwork
      [] level = "elevated" ->
           IF has("dvpn") THEN "dvpn"
           ELSE IF has("gnunet") THEN "gnunet"
           ELSE IF has("tor") THEN "tor"
           ELSE defaultNetwork
      [] OTHER -> defaultNetwork

SelectNetworkForSecurity(level) ==
    /\ ret' = [op |-> "selectNetworkForSecurity", level |-> level,
               result |-> selectNetworkForSecurity(level),
               registered |-> Registered, default |-> defaultNetwork]
    /\ UNCHANGED <<routerVars, policyVars, tlsIn, pkiVars, facadeVars>>

(***************************************************************************)
(* UnifiedRouter: route, disconnectAll                                     *)
(***************************************************************************)
\* how many callers use one router at the same time
MaxCallers == 2

Request(handle, url, preferredNetwork, securityLevel, spaceId) ==
    [handle |-> handle, url |-> url, preferredNetwork |-> preferredNetwork,
     securityLevel |-> securityLevel, spaceId |-> spaceId]

\* the networks and the requests of SpecRoute
RouteNets == {"clearnet", "tor"}
Requests ==
    { Request(None, Some("https://example.com"), n, l, None) :
        n \in {None} \cup {Some(t) : t \in RouteNets},
        l \in {None, Some("maximum")} }
    \cup { Request(Some("alice"), Some("https://example.com"), None, None, Some("space-1")) }

\* what an awaited connect() or route() of a handler comes to: connect resolves
\* "true" or "false", route resolves "ok", either may throw an Error or
\* something that is no Error
Throws == {"throwError", "throwOther"}
ConnectOutcomes(h) ==
    IF h.kind = "simulated" THEN {"true"} ELSE {"true", "false"} \cup Throws
RouteOutcomes(h) ==
    IF h.kind = "simulated" THEN {"ok"} ELSE {"ok"} \cup Throws

\* generateConnectionId: `conn_${Date.now()}_${Math.random()...}`; the clock and
\* the random draw are the environment's
ConnectionIds == {"conn_1767225600000_k3j9x2abc", "conn_1767225600001_z8q1m4xyz"}

Failure(networkType, error) ==
    [success |-> FALSE, networkUsed |-> networkType, resolvedAddress |-> "",
     connectionId |-> "", metadata |-> None, error |-> Some(error)]

Success(request, networkType, resolvedAddress, connectionId) ==
    [success |-> TRUE, networkUsed |-> networkType,
     resolvedAddress |-> resolvedAddress, connectionId |-> connectionId,
     metadata |-> Some([securityLevel |-> IF IsSome(request.securityLevel)
                                         THEN Get(request.securityLevel)
                                         ELSE "standard",
                        spaceId |-> request.spaceId]),
     error |-> None]

\* the catch clause: error instanceof Error ? error.message : 'Unknown routing error'
CatchMessage(thrown) ==
    IF thrown = "throwError" THEN "handler failure" ELSE "Unknown routing error"

\* The mutant: a preferred network without a handler falls back to the default.
TargetNetwork_FallsBack(request) ==
    IF IsSome(request.preferredNetwork) /\ has(Get(request.preferredNetwork))
    THEN Get(request.preferredNetwork)
    ELSE defaultNetwork

\* The mutant: a request of level maximum goes to tor when tor is registered.
TargetNetwork_BySecurityLevel(request) ==
    IF request.securityLevel = Some("maximum") /\ has("tor") THEN "tor"
    ELSE IF IsSome(request.preferredNetwork) THEN Get(request.preferredNetwork)
    ELSE defaultNetwork

\* request.preferredNetwork ?? this.defaultNetwork
TargetNetwork(request) ==
    IF IsSome(request.preferredNetwork) THEN Get(request.preferredNetwork)
    ELSE defaultNetwork

\* request.handle ?? request.url ?? ''
TargetAddress(request) ==
    IF IsSome(request.handle) THEN Get(request.handle)
    ELSE IF IsSome(request.url) THEN Get(request.url)
    ELSE ""

\* what a route call returned, and what the handler's connect() and route()
\* had come to in it ("none": not called)
RouteRet(c, request, response, connectOutcome, routeOutcome) ==
    [op |-> "route", caller |-> c, request |-> request, response |-> response,
     connect |-> connectOutcome, routed |-> routeOutcome]

\* route(request), up to its first await or its early return
RouteStart(c, request) ==
    /\ calls[c] = Idle
    /\ LET networkType == TargetNetwork(request)
       IN  IF ~has(networkType)
           THEN /\ ret' = RouteRet(c, request,
                              Failure(networkType,
                                  "No handler registered for network type: " \o networkType),
                              "none", "none")
                /\ UNCHANGED <<handlers, objs, calls>>
           ELSE
             LET handler == handlers[IndexOf(networkType)]
                 call == [request |-> request, networkType |-> networkType,
                          ref |-> RegRef(networkType)]
             IN  IF ~isEnabled(handler)
                 THEN /\ ret' = RouteRet(c, request,
                                    Failure(networkType,
                                        "Network " \o networkType \o " is disabled"),
                                    "none", "none")
                      /\ UNCHANGED <<handlers, objs, calls>>
                 ELSE IF getState(handler) # "connected"
                 THEN \* handler.connect() runs to its first await
                      /\ IF handler.kind = "simulated"
                         THEN /\ handlers' = WithState(call.ref, connect(handler).handler.state)[1]
                              /\ calls' = [calls EXCEPT ![c] =
                                    [pc |-> "awaitConnect", connect |-> "true"] @@ call]
                         ELSE /\ handlers' = WithState(call.ref, "connecting")[1]
                              /\ calls' = [calls EXCEPT ![c] =
                                    [pc |-> "connecting"] @@ call]
                      /\ UNCHANGED <<objs, ret>>
                 ELSE \* already connected: handler.route(address) is called at once
                      /\ \E o \in RouteOutcomes(handler) :
                            calls' = [calls EXCEPT ![c] =
                              [pc |-> "awaitRoute", connect |-> "none", routed |-> o] @@ call]
                      /\ UNCHANGED <<handlers, objs, ret>>
    /\ UNCHANGED <<defaultNetwork, policyVars, tlsIn, pkiVars, facadeVars>>

\* the connect() that an external handler suspended in comes to an end
ConnectSettle(c, outcome) ==
    /\ calls[c].pc = "connecting"
    /\ outcome \in ConnectOutcomes(Deref(calls[c].ref))
    /\ LET after == WithState(calls[c].ref,
                              IF outcome = "true" THEN "connected" ELSE "error")
       IN  /\ handlers' = after[1]
           /\ objs' = after[2]
    /\ calls' = [calls EXCEPT ![c] =
                   [pc |-> "awaitConnect", connect |-> outcome,
                    request |-> calls[c].request, networkType |-> calls[c].networkType,
                    ref |-> calls[c].ref]]
    /\ UNCHANGED <<defaultNetwork, ret, policyVars, tlsIn, pkiVars, facadeVars>>

\* route resumes after `await handler.connect()`: the value connect resolved
\* is dropped, a throw goes to the catch clause
RouteResume(c) ==
    /\ calls[c].pc = "awaitConnect"
    /\ LET call == calls[c]
           handler == Deref(call.ref)
       IN  IF call.connect \in Throws
           THEN /\ ret' = RouteRet(c, call.request,
                              Failure(call.networkType, CatchMessage(call.connect)),
                              call.connect, "none")
                /\ objs' = ReleaseObjs(c, call.ref)
                /\ calls' = ReleaseCalls(c, call.ref)
           ELSE /\ \E o \in RouteOutcomes(handler) :
                      calls' = [calls EXCEPT ![c] =
                        [pc |-> "awaitRoute", connect |-> call.connect, routed |-> o,
                         request |-> call.request, networkType |-> call.networkType,
                         ref |-> call.ref]]
                /\ UNCHANGED <<objs, ret>>
    /\ UNCHANGED <<handlers, defaultNetwork, policyVars, tlsIn, pkiVars, facadeVars>>

\* route resumes after `await handler.route(address)` and returns
RouteReturn(c) ==
    /\ calls[c].pc = "awaitRoute"
    /\ LET call == calls[c]
           handler == Deref(call.ref)
       IN  /\ IF call.routed \in Throws
              THEN ret' = RouteRet(c, call.request,
                              Failure(call.networkType, CatchMessage(call.routed)),
                              call.connect, call.routed)
              ELSE \E connectionId \in ConnectionIds :
                     ret' = RouteRet(c, call.request,
                              Success(call.request, call.networkType,
                                      handlerRoute(handler, TargetAddress(call.request)),
                                      connectionId),
                              call.connect, call.routed)
           /\ objs' = ReleaseObjs(c, call.ref)
           /\ calls' = ReleaseCalls(c, call.ref)
    /\ UNCHANGED <<handlers, defaultNetwork, policyVars, tlsIn, pkiVars, facadeVars>>

\* The mutant: a disabled handler is passed over.
DisconnectAllStep_SkipsDisabled(c) ==
    /\ calls[c].pc \in {"idle", "iterating"}
    /\ LET pos == IF calls[c].pc = "idle" THEN 0 ELSE calls[c].pos
       IN  IF pos < Len(handlers)
           THEN /\ handlers' = IF isEnabled(handlers[pos + 1])
                               THEN [handlers EXCEPT ![pos + 1] = disconnect(handlers[pos + 1])]
                               ELSE handlers
                /\ calls' = [calls EXCEPT ![c] = [pc |-> "iterating", pos |-> pos + 1]]
                /\ UNCHANGED ret
           ELSE /\ calls' = [calls EXCEPT ![c] = Idle]
                /\ ret' = [op |-> "disconnectAll", caller |-> c]
                /\ UNCHANGED handlers
    /\ UNCHANGED <<objs, defaultNetwork, policyVars, tlsIn, pkiVars, facadeVars>>

\* disconnectAll: `for (const handler of this.handlers.values()) await
\* handler.disconnect()`, one turn of the loop; disconnect() sets the state and
\* does not suspend.  The first turn runs when disconnectAll is called.
DisconnectAllStep(c) ==
    /\ calls[c].pc \in {"idle", "iterating"}
    /\ LET pos == IF calls[c].pc = "idle" THEN 0 ELSE calls[c].pos
       IN  IF pos < Len(handlers)
           THEN /\ handlers' = [handlers EXCEPT ![pos + 1] = disconnect(handlers[pos + 1])]
                /\ calls' = [calls EXCEPT ![c] = [pc |-> "iterating", pos |-> pos + 1]]
                /\ UNCHANGED ret
           ELSE /\ calls' = [calls EXCEPT ![c] = Idle]
                /\ ret' = [op |-> "disconnectAll", caller |-> c]
                /\ UNCHANGED handlers
    /\ UNCHANGED <<objs, defaultNetwork, policyVars, tlsIn, pkiVars, facadeVars>>

\* getHandler(type).connect() and getHandler(type).disconnect(), awaited, on a
\* handler of the six classes
HandlerConnect(type) ==
    /\ has(type)
    /\ LET h == handlers[IndexOf(type)]
       IN  /\ handlers' = [handlers EXCEPT ![IndexOf(type)] = connect(h).handler]
           /\ ret' = [op |-> "connect", type |-> type, before |-> h,
                      assigns |-> connectAssigns(h), result |-> connect(h).result]
    /\ UNCHANGED <<objs, calls, defaultNetwork, policyVars, tlsIn, pkiVars, facadeVars>>

HandlerDisconnect(type) ==
    /\ has(type)
    /\ LET h == handlers[IndexOf(type)]
       IN  /\ handlers' = [handlers EXCEPT ![IndexOf(type)] = disconnect(h)]
           /\ ret' = [op |-> "disconnect", type |-> type, before |-> h]
    /\ UNCHANGED <<objs, calls, defaultNetwork, policyVars, tlsIn, pkiVars, facadeVars>>

\* Map.prototype.set on the results of connectAll
ResultsSet(results, type, value) ==
    [t \in DOMAIN results \cup {type} |-> IF t = type THEN value ELSE results[t]]

\* The mutant: a disabled handler is connected like an enabled one.
RECURSIVE connectAllRun_IgnoresEnabled(_, _, _)
connectAllRun_IgnoresEnabled(hs, pos, results) ==
    IF pos >= Len(hs)
    THEN [handlers |-> hs, pos |-> pos, results |-> results, awaited |-> None]
    ELSE LET handler == hs[pos + 1]
         IN  [handlers |-> [hs EXCEPT ![pos + 1] = connect(handler).handler],
              pos |-> pos + 1, results |-> results,
              awaited |-> Some([type |-> handler.type,
                                value |-> connect(handler).result])]

\* The loop of connectAll from entry pos + 1 on, up to its next await or its
\* end: a disabled handler is given false without suspending, an enabled one
\* has connect() called and the loop awaits what it resolves
RECURSIVE connectAllRun(_, _, _)
connectAllRun(hs, pos, results) ==
    IF pos >= Len(hs)
    THEN [handlers |-> hs, pos |-> pos, results |-> results, awaited |-> None]
    ELSE LET handler == hs[pos + 1]
         IN  IF isEnabled(handler)
             THEN [handlers |-> [hs EXCEPT ![pos + 1] = connect(handler).handler],
                   pos |-> pos + 1, results |-> results,
                   awaited |-> Some([type |-> handler.type,
                                     value |-> connect(handler).result])]
             ELSE connectAllRun(hs, pos + 1, ResultsSet(results, handler.type, FALSE))

\* connectAll over handlers of the six classes, one stretch between two awaits:
\* the awaited connect() result is stored, then the loop goes on.  `before` is
\* the registry as it was when connectAll was called.
ConnectAllStep(c) ==
    /\ calls[c].pc \in {"idle", "connectAll"}
    /\ LET started == calls[c].pc = "connectAll"
           pos == IF started THEN calls[c].pos ELSE 0
           before == IF started THEN calls[c].before ELSE handlers
           results == IF started
                      THEN ResultsSet(calls[c].results, calls[c].awaited.type,
                                      calls[c].awaited.value)
                      ELSE <<>>
           run == connectAllRun(handlers, pos, results)
       IN  /\ handlers' = run.handlers
           /\ IF IsSome(run.awaited)
              THEN /\ calls' = [calls EXCEPT ![c] =
                                  [pc |-> "connectAll", pos |-> run.pos,
                                   results |-> run.results,
                                   awaited |-> Get(run.awaited), before |-> before]]
                   /\ UNCHANGED ret
              ELSE /\ calls' = [calls EXCEPT ![c] = Idle]
                   /\ ret' = [op |-> "connectAll", caller |-> c,
                              results |-> run.results, before |-> before]
    /\ UNCHANGED <<objs, defaultNetwork, policyVars, tlsIn, pkiVars, facadeVars>>

(***************************************************************************)
(* PKIManager                                                              *)
(***************************************************************************)
\* Certificate; validFrom and validTo are Dates, held as their millisecond
\* values, which is what < and > compare
Certificate(id, subject, issuer, publicKey, serialNumber, validFrom, validTo, isPrivate, trusted) ==
    [id |-> id, subject |-> subject, issuer |-> issuer, publicKey |-> publicKey,
     serialNumber |-> serialNumber, validFrom |-> validFrom, validTo |-> validTo,
     isPrivate |-> isPrivate, trusted |-> trusted]

\* the clock is read up to MaxTime
MaxTime == 2
\* a day of Date.prototype.setDate, in milliseconds
MsPerDay == 86400000

\* generateCertificateId: `cert_${Date.now()}_${Math.random()...}` and
\* generateSerialNumber: the random draws are the environment's
CertificateIds == {"cert_1767225600000_a1b2c3d4e", "cert_1767225600001_f5g6h7i8j"}
SerialNumbers == {"0F1E2D3C4B5A69788796A5B4C3D2E1F0"}
\* crypto.generateKeyPairSync(...).publicKey
GeneratedPublicKey == "-----BEGIN PUBLIC KEY-----"

\* Map.prototype.get/has/set/delete on this.certificates
CertIndex(id) ==
    IF \E k \in 1..Len(certificates) : certificates[k].id = id
    THEN CHOOSE k \in 1..Len(certificates) : certificates[k].id = id
    ELSE 0
CertSet(cert) ==
    IF CertIndex(cert.id) # 0
    THEN [certificates EXCEPT ![CertIndex(cert.id)] = cert]
    ELSE Append(certificates, cert)
getCertificate(id) ==
    IF CertIndex(id) # 0 THEN Some(certificates[CertIndex(id)]) ELSE None
listCertificates == certificates
isTrustedIssuer(issuer) == issuer \in trustedIssuers

\* cert.validFrom > now and cert.validTo < now, now being new Date()
notYetValid(cert) == cert.validFrom > now
expired(cert) == cert.validTo < now

\* The mutant: a private certificate needs a trusted issuer like any other.
issuerTrusted_IgnoresPrivate(cert) == cert.issuer \in trustedIssuers

\* this.trustedIssuers.has(cert.issuer) || cert.isPrivate
issuerTrusted(cert) == cert.issuer \in trustedIssuers \/ cert.isPrivate

\* The mutant: the expiry test is the else branch of the not-yet-valid test.
verifyCertificate_ElseIf(cert) ==
    [valid |-> ~notYetValid(cert) /\ ~expired(cert),
     trusted |-> issuerTrusted(cert),
     errors |-> IF notYetValid(cert) THEN <<"Certificate is not yet valid">>
                ELSE IF expired(cert) THEN <<"Certificate has expired">>
                ELSE <<>>,
     warnings |-> IF issuerTrusted(cert) THEN <<>>
                  ELSE <<"Certificate issuer is not in trusted list">>]

\* verifyCertificate: valid starts true and is cleared by either test
verifyCertificate(cert) ==
    [valid |-> ~notYetValid(cert) /\ ~expired(cert),
     trusted |-> issuerTrusted(cert),
     errors |-> (IF notYetValid(cert) THEN <<"Certificate is not yet valid">> ELSE <<>>)
                \o (IF expired(cert) THEN <<"Certificate has expired">> ELSE <<>>),
     warnings |-> IF issuerTrusted(cert) THEN <<>>
                  ELSE <<"Certificate issuer is not in trusted list">>]

\* The mutant: the generated certificate is not marked private.
selfSignedCertificate_NotPrivate(id, subject, validityDays, serialNumber) ==
    Certificate(id, subject, subject, GeneratedPublicKey, serialNumber,
                now, now + validityDays * MsPerDay, FALSE, TRUE)

\* the certificate generateSelfSignedCertificate builds
selfSignedCertificate(id, subject, validityDays, serialNumber) ==
    Certificate(id, subject, subject, GeneratedPublicKey, serialNumber,
                now, now + validityDays * MsPerDay, TRUE, TRUE)

\* the subjects, issuers and certificates of SpecPki
Subjects == {"CN=self.local"}
Issuers == {"CN=Trusted CA", "CN=Unknown CA"}
\* the issuers that are added to and removed from the trusted set
TrustableIssuers == {"CN=Trusted CA", "CN=self.local"}
ValidityDays == {1}
\* certificates that a caller builds and hands to verifyCertificate
InputCertificates ==
    { Certificate("1", "CN=valid.com", issuer, "key", "1", validFrom, validTo,
                  isPrivate, trusted) :
        issuer \in Issuers, validFrom \in 0..MaxTime, validTo \in 0..MaxTime,
        isPrivate \in BOOLEAN, trusted \in BOOLEAN }
\* certificates without id that a caller hands to addCertificate
AddedCertificates ==
    { [subject |-> "CN=valid.com", issuer |-> issuer, publicKey |-> "key",
       serialNumber |-> "1", validFrom |-> 0, validTo |-> MaxTime,
       isPrivate |-> FALSE, trusted |-> FALSE] :
        issuer \in {"CN=Trusted CA"} }

\* addCertificate(cert): { ...cert, id: this.generateCertificateId() }
AddCertificate(cert) ==
    /\ \E id \in CertificateIds :
         LET certificate == Certificate(id, cert.subject, cert.issuer, cert.publicKey,
                                        cert.serialNumber, cert.validFrom, cert.validTo,
                                        cert.isPrivate, cert.trusted)
         IN  /\ certificates' = CertSet(certificate)
             /\ ret' = [op |-> "addCertificate", result |-> certificate]
    /\ UNCHANGED <<trustedIssuers, now, policyVars, routerVars, tlsIn, facadeVars>>

RemoveCertificate(id) ==
    /\ certificates' = SelectSeq(certificates, LAMBDA c : c.id # id)
    /\ ret' = [op |-> "removeCertificate", id |-> id, result |-> CertIndex(id) # 0]
    /\ UNCHANGED <<trustedIssuers, now, policyVars, routerVars, tlsIn, facadeVars>>

AddTrustedIssuer(issuer) ==
    /\ trustedIssuers' = trustedIssuers \cup {issuer}
    /\ ret' = [op |-> "addTrustedIssuer", issuer |-> issuer]
    /\ UNCHANGED <<certificates, now, policyVars, routerVars, tlsIn, facadeVars>>

RemoveTrustedIssuer(issuer) ==
    /\ trustedIssuers' = trustedIssuers \ {issuer}
    /\ ret' = [op |-> "removeTrustedIssuer", issuer |-> issuer,
               result |-> issuer \in trustedIssuers]
    /\ UNCHANGED <<certificates, now, policyVars, routerVars, tlsIn, facadeVars>>

\* verifyCertificate(cert); `at` and `issuers` are the clock and the trusted
\* issuers the call read
VerifyCertificate(cert) ==
    /\ ret' = [op |-> "verifyCertificate", cert |-> cert, at |-> now,
               issuers |-> trustedIssuers, result |-> verifyCertificate(cert)]
    /\ UNCHANGED <<pkiVars, policyVars, routerVars, tlsIn, facadeVars>>

GenerateSelfSignedCertificate(subject, validityDays) ==
    /\ \E id \in CertificateIds, serialNumber \in SerialNumbers :
         LET cert == selfSignedCertificate(id, subject, validityDays, serialNumber)
         IN  /\ certificates' = CertSet(cert)
             /\ ret' = [op |-> "generateSelfSignedCertificate", subject |-> subject,
                        issuers |-> trustedIssuers, result |-> cert]
    /\ UNCHANGED <<trustedIssuers, now, policyVars, routerVars, tlsIn, facadeVars>>

\* a millisecond passes
Tick ==
    /\ now < MaxTime
    /\ now' = now + 1
    /\ UNCHANGED <<certificates, trustedIssuers, ret, policyVars, routerVars, tlsIn, facadeVars>>

(***************************************************************************)
(* SecurityLevelManager                                                    *)
(***************************************************************************)
SecurityLevelConfig(minTlsVersion, requireCertificateValidation, allowSelfSigned, requireStrictTransportSecurity) ==
    [minTlsVersion |-> minTlsVersion,
     requireCertificateValidation |-> requireCertificateValidation,
     allowSelfSigned |-> allowSelfSigned,
     requireStrictTransportSecurity |-> requireStrictTransportSecurity]

\* The mutant: level maximum asks for TLS 1.2 only.
initializeDefaultConfigs_MaximumTls12 ==
    levelConfigs = ("standard" :> SecurityLevelConfig("1.2", TRUE, FALSE, FALSE))
                @@ ("elevated" :> SecurityLevelConfig("1.2", TRUE, FALSE, TRUE))
                @@ ("maximum"  :> SecurityLevelConfig("1.2", TRUE, FALSE, TRUE))

initializeDefaultConfigs ==
    levelConfigs = ("standard" :> SecurityLevelConfig("1.2", TRUE, FALSE, FALSE))
                @@ ("elevated" :> SecurityLevelConfig("1.2", TRUE, FALSE, TRUE))
                @@ ("maximum"  :> SecurityLevelConfig("1.3", TRUE, FALSE, TRUE))

getCurrentLevel == currentLevel

\* this.levelConfigs.get(this.currentLevel) ?? this.levelConfigs.get('standard')!
getCurrentConfig ==
    IF currentLevel \in DOMAIN levelConfigs THEN levelConfigs[currentLevel]
    ELSE levelConfigs["standard"]

\* this.levelConfigs.get(level) ?? null
getConfig(level) ==
    IF level \in DOMAIN levelConfigs THEN Some(levelConfigs[level]) ELSE None

SetLevel(level) ==
    /\ currentLevel' = level
    /\ ret' = [op |-> "setLevel", level |-> level]
    /\ UNCHANGED <<levelConfigs, agentVars, handleVars, gateVars,
                   policyVars, tlsIn, routerVars, pkiVars, taskVars>>

GetCurrentLevel ==
    /\ ret' = [op |-> "getCurrentLevel", result |-> getCurrentLevel]
    /\ UNCHANGED <<facadeVars, policyVars, tlsIn, routerVars, pkiVars>>

GetCurrentConfig ==
    /\ ret' = [op |-> "getCurrentConfig", result |-> getCurrentConfig]
    /\ UNCHANGED <<facadeVars, policyVars, tlsIn, routerVars, pkiVars>>

GetConfig(level) ==
    /\ ret' = [op |-> "getConfig", level |-> level, result |-> getConfig(level)]
    /\ UNCHANGED <<facadeVars, policyVars, tlsIn, routerVars, pkiVars>>

(***************************************************************************)
(* AgentRegistry                                                           *)
(***************************************************************************)
AgentTypes == {"automation", "osint", "research", "custom"}

Agent(id, type, name, description, enabled, permissions, config) ==
    [id |-> id, type |-> type, name |-> name, description |-> description,
     enabled |-> enabled, permissions |-> permissions, config |-> config]

\* how many agents registerAgent may register in one run of the model
MaxAgents == 2

\* generateAgentId: `agent_${Date.now()}_${Math.random()...}`, taken to be
\* distinct from call to call
generateAgentId == "agent_" \o ToString(nextAgentId + 1)
AllAgentIds == {"agent_" \o ToString(n) : n \in 1..MaxAgents}

\* the arguments of registerAgent and updateAgent
AgentPermissions ==
    [networkAccess |-> <<"clearnet">>, spaceAccess |-> <<>>,
     canExecuteCommands |-> FALSE, canAccessWallets |-> FALSE]
AgentUpdates ==
    { [name |-> Some("Renamed"), enabled |-> None],
      [name |-> None, enabled |-> Some(TRUE)],
      [name |-> None, enabled |-> Some(FALSE)] }

\* { ...agent, ...updates }
updatedAgent(agent, updates) ==
    [agent EXCEPT !.name = IF IsSome(updates.name) THEN Get(updates.name) ELSE @,
                  !.enabled = IF IsSome(updates.enabled) THEN Get(updates.enabled) ELSE @]

getAgent(id) == IF id \in DOMAIN agents THEN Some(agents[id]) ELSE None
isAgentRunning(id) == id \in runningAgents

RegisterAgent(type, name, description, permissions, config) ==
    /\ LET agent == Agent(generateAgentId, type, name, description, TRUE,
                          permissions, config)
       IN  /\ agents' = (agent.id :> agent) @@ agents
           /\ ret' = [op |-> "registerAgent", result |-> agent]
    /\ nextAgentId' = nextAgentId + 1
    /\ UNCHANGED <<runningAgents, levelVars, handleVars, gateVars,
                   policyVars, tlsIn, routerVars, pkiVars, taskVars>>

UpdateAgent(id, updates) ==
    /\ IF id \notin DOMAIN agents
       THEN /\ ret' = [op |-> "updateAgent", id |-> id, result |-> None]
            /\ UNCHANGED agents
       ELSE /\ agents' = [agents EXCEPT ![id] = updatedAgent(agents[id], updates)]
            /\ ret' = [op |-> "updateAgent", id |-> id,
                       result |-> Some(updatedAgent(agents[id], updates))]
    /\ UNCHANGED <<runningAgents, nextAgentId, levelVars, handleVars, gateVars,
                   policyVars, tlsIn, routerVars, pkiVars, taskVars>>

RemoveAgent(id) ==
    /\ runningAgents' = runningAgents \ {id}
    /\ agents' = [k \in DOMAIN agents \ {id} |-> agents[k]]
    /\ ret' = [op |-> "removeAgent", id |-> id, result |-> id \in DOMAIN agents]
    /\ UNCHANGED <<nextAgentId, levelVars, handleVars, gateVars,
                   policyVars, tlsIn, routerVars, pkiVars, taskVars>>

EnableAgent(id) ==
    /\ IF id \notin DOMAIN agents
       THEN /\ ret' = [op |-> "enableAgent", id |-> id, result |-> FALSE]
            /\ UNCHANGED agents
       ELSE /\ agents' = [agents EXCEPT ![id].enabled = TRUE]
            /\ ret' = [op |-> "enableAgent", id |-> id, result |-> TRUE]
    /\ UNCHANGED <<runningAgents, nextAgentId, levelVars, handleVars, gateVars,
                   policyVars, tlsIn, routerVars, pkiVars, taskVars>>

DisableAgent(id) ==
    /\ IF id \notin DOMAIN agents
       THEN /\ ret' = [op |-> "disableAgent", id |-> id, result |-> FALSE]
            /\ UNCHANGED <<agents, runningAgents>>
       ELSE /\ agents' = [agents EXCEPT ![id].enabled = FALSE]
            /\ runningAgents' = runningAgents \ {id}
            /\ ret' = [op |-> "disableAgent", id |-> id, result |-> TRUE]
    /\ UNCHANGED <<nextAgentId, levelVars, handleVars, gateVars,
                   policyVars, tlsIn, routerVars, pkiVars, taskVars>>

IsAgentRunning(id) ==
    /\ ret' = [op |-> "isAgentRunning", id |-> id, result |-> isAgentRunning(id)]
    /\ UNCHANGED <<facadeVars, policyVars, tlsIn, routerVars, pkiVars>>

StartAgent(id) ==
    /\ IF id \notin DOMAIN agents \/ ~agents[id].enabled
       THEN /\ ret' = [op |-> "startAgent", id |-> id, result |-> FALSE]
            /\ UNCHANGED runningAgents
       ELSE /\ runningAgents' = runningAgents \cup {id}
            /\ ret' = [op |-> "startAgent", id |-> id, result |-> TRUE]
    /\ UNCHANGED <<agents, nextAgentId, levelVars, handleVars, gateVars,
                   policyVars, tlsIn, routerVars, pkiVars, taskVars>>

StopAgent(id) ==
    /\ runningAgents' = runningAgents \ {id}
    /\ ret' = [op |-> "stopAgent", id |-> id, result |-> id \in runningAgents]
    /\ UNCHANGED <<agents, nextAgentId, levelVars, handleVars, gateVars,
                   policyVars, tlsIn, routerVars, pkiVars, taskVars>>

(***************************************************************************)
(* HandleResolver (src/src/handles/index.ts)                               *)
(***************************************************************************)
UpperCaseLetters == "ABCDEFGHIJKLMNOPQRSTUVWXYZ"
LowerCaseLetters == "abcdefghijklmnopqrstuvwxyz"
WhiteSpace == {" ", "\t", "\n"}

\* the lower-case letter of each upper-case letter
LowerCaseOf ==
    [ch \in {Char(UpperCaseLetters, i) : i \in 1..Len(UpperCaseLetters)} |->
        Char(LowerCaseLetters,
             CHOOSE i \in 1..Len(UpperCaseLetters) : Char(UpperCaseLetters, i) = ch)]

toLowerCaseChar(ch) == IF ch \in DOMAIN LowerCaseOf THEN LowerCaseOf[ch] ELSE ch

\* String.prototype.toLowerCase, on the letters A to Z
RECURSIVE toLowerCase(_)
toLowerCase(s) ==
    IF Len(s) = 0 THEN ""
    ELSE toLowerCaseChar(Char(s, 1)) \o toLowerCase(SubSeq(s, 2, Len(s)))

RECURSIVE trimStart(_)
trimStart(s) ==
    IF Len(s) > 0 /\ Char(s, 1) \in WhiteSpace THEN trimStart(SubSeq(s, 2, Len(s)))
    ELSE s

RECURSIVE trimEnd(_)
trimEnd(s) ==
    IF Len(s) > 0 /\ Char(s, Len(s)) \in WhiteSpace THEN trimEnd(SubSeq(s, 1, Len(s) - 1))
    ELSE s

\* String.prototype.trim
trim(s) == trimEnd(trimStart(s))

\* normalizeHandleName: name.toLowerCase().trim()
normalizeHandleName(name) == trim(toLowerCase(name))

Handle(id, name, networkType, address, metadata, createdAt, updatedAt) ==
    [id |-> id, name |-> name, networkType |-> networkType, address |-> address,
     metadata |-> metadata, createdAt |-> createdAt, updatedAt |-> updatedAt]

\* generateHandleId: `handle_${Date.now()}_${Math.random()...}`; the clock and
\* the random draw are the environment's
HandleIds == {"handle_1767225600000_q1w2e3r4t"}

\* the names, networks and addresses the resolver is called with
HandleNames == {"alice", " Alice ", "bob", "ALIAS"}
HandleNets == {"clearnet", "tor"}
HandleAddresses == {"https://example.com"}

\* Map.prototype.set and delete on a Map held as a function
MapSet(map, key, value) ==
    [k \in DOMAIN map \cup {key} |-> IF k = key THEN value ELSE map[k]]
MapDelete(map, keys) == [k \in DOMAIN map \ keys |-> map[k]]

\* resolve(name): an alias is followed first, then the handles are looked up
resolve(name) ==
    LET normalizedName == normalizeHandleName(name)
    IN  IF normalizedName \in DOMAIN aliasMap /\ Len(aliasMap[normalizedName]) > 0
        THEN IF aliasMap[normalizedName] \in DOMAIN handles
             THEN Some(handles[aliasMap[normalizedName]]) ELSE None
        ELSE IF normalizedName \in DOMAIN handles
             THEN Some(handles[normalizedName]) ELSE None

hasHandle(name) ==
    normalizeHandleName(name) \in DOMAIN handles \cup DOMAIN aliasMap

\* The mutant: a registered name is registered again, over the handle it had.
RegisterHandle_Overwrites(name, networkType, address) ==
    /\ \E id \in HandleIds :
          LET normalizedName == normalizeHandleName(name)
              handle == Handle(id, normalizedName, networkType, address, None, now, now)
          IN  /\ handles' = MapSet(handles, normalizedName, handle)
              /\ ret' = [op |-> "registerHandle", name |-> name, threw |-> FALSE,
                         result |-> Some(handle)]
    /\ UNCHANGED <<aliasMap, levelVars, agentVars, gateVars,
                   policyVars, tlsIn, routerVars, pkiVars, taskVars>>

\* registerHandle(name, networkType, address): throws when the normalized name
\* is registered
RegisterHandle(name, networkType, address) ==
    /\ \E id \in HandleIds :
          LET normalizedName == normalizeHandleName(name)
              handle == Handle(id, normalizedName, networkType, address, None, now, now)
          IN  IF normalizedName \in DOMAIN handles
              THEN /\ ret' = [op |-> "registerHandle", name |-> name, threw |-> TRUE,
                              result |-> None]
                   /\ UNCHANGED handles
              ELSE /\ handles' = MapSet(handles, normalizedName, handle)
                   /\ ret' = [op |-> "registerHandle", name |-> name, threw |-> FALSE,
                              result |-> Some(handle)]
    /\ UNCHANGED <<aliasMap, levelVars, agentVars, gateVars,
                   policyVars, tlsIn, routerVars, pkiVars, taskVars>>

\* the backups importHandles is called with: one or two exported handles
ImportedHandles ==
    {Handle("handle_0_backup", name, "tor", "http://backup.onion", None, 0, 0) :
        name \in HandleNames}
ImportLists ==
    {<<h>> : h \in ImportedHandles}
        \cup {<<h1, h2>> : h1 \in ImportedHandles, h2 \in ImportedHandles}

\* the loop of importHandles from the k-th handle of the list on: a handle
\* whose normalized name is not registered is stored under it, with a new id
RECURSIVE importFrom(_, _, _, _, _)
importFrom(hs, imported, list, k, id) ==
    IF k > Len(list) THEN [handles |-> hs, imported |-> imported]
    ELSE LET handle == list[k]
             normalizedName == normalizeHandleName(handle.name)
         IN  IF normalizedName \notin DOMAIN hs
             THEN importFrom(MapSet(hs, normalizedName,
                                    [handle EXCEPT !.id = id, !.updatedAt = now]),
                             imported + 1, list, k + 1, id)
             ELSE importFrom(hs, imported, list, k + 1, id)

ImportHandles(list) ==
    /\ \E id \in HandleIds :
          LET done == importFrom(handles, 0, list, 1, id)
          IN  /\ handles' = done.handles
              /\ ret' = [op |-> "importHandles", result |-> done.imported]
    /\ UNCHANGED <<aliasMap, levelVars, agentVars, gateVars,
                   policyVars, tlsIn, routerVars, pkiVars, taskVars>>

Resolve(name) ==
    /\ ret' = [op |-> "resolve", name |-> name, result |-> resolve(name)]
    /\ UNCHANGED <<facadeVars, policyVars, tlsIn, routerVars, pkiVars>>

\* removeHandle(name): the aliases of the handle go with it
RemoveHandle(name) ==
    /\ LET normalizedName == normalizeHandleName(name)
       IN  /\ aliasMap' = MapDelete(aliasMap,
                              {a \in DOMAIN aliasMap : aliasMap[a] = normalizedName})
           /\ handles' = MapDelete(handles, {normalizedName})
           /\ ret' = [op |-> "removeHandle", name |-> name,
                      result |-> normalizedName \in DOMAIN handles]
    /\ UNCHANGED <<levelVars, agentVars, gateVars,
                   policyVars, tlsIn, routerVars, pkiVars, taskVars>>

\* createAlias(alias, targetHandle): throws when the alias is a registered
\* handle, and when the target is not one
CreateAlias(alias, targetHandle) ==
    /\ LET normalizedAlias == normalizeHandleName(alias)
           normalizedTarget == normalizeHandleName(targetHandle)
       IN  IF normalizedAlias \in DOMAIN handles \/ normalizedTarget \notin DOMAIN handles
           THEN /\ ret' = [op |-> "createAlias", alias |-> alias,
                           target |-> targetHandle, threw |-> TRUE]
                /\ UNCHANGED aliasMap
           ELSE /\ aliasMap' = MapSet(aliasMap, normalizedAlias, normalizedTarget)
                /\ ret' = [op |-> "createAlias", alias |-> alias,
                           target |-> targetHandle, threw |-> FALSE]
    /\ UNCHANGED <<handles, levelVars, agentVars, gateVars,
                   policyVars, tlsIn, routerVars, pkiVars, taskVars>>

RemoveAlias(alias) ==
    /\ aliasMap' = MapDelete(aliasMap, {normalizeHandleName(alias)})
    /\ ret' = [op |-> "removeAlias", alias |-> alias,
               result |-> normalizeHandleName(alias) \in DOMAIN aliasMap]
    /\ UNCHANGED <<handles, levelVars, agentVars, gateVars,
                   policyVars, tlsIn, routerVars, pkiVars, taskVars>>

(***************************************************************************)
(* AgentTaskManager (src/src/security/index.ts, lines 735-830)             *)
(***************************************************************************)
TaskStatuses == {"pending", "running", "completed", "failed"}

\* an AgentTask; output, error, startedAt and completedAt are optional
AgentTask(id, agentId, type, status, input) ==
    [id |-> id, agentId |-> agentId, type |-> type, status |-> status, input |-> input,
     output |-> None, error |-> None, startedAt |-> None, completedAt |-> None]

\* how many tasks createTask may create in one run of the model
MaxTasks == 3

\* generateTaskId: `task_${Date.now()}_${Math.random()...}`, taken to be
\* distinct from call to call
generateTaskId == "task_" \o ToString(nextTaskId + 1)
AllTaskIds == {"task_" \o ToString(n) : n \in 1..MaxTasks}

\* the arguments updateTaskStatus is called with: status, output, error
TaskUpdates ==
    { <<"pending", None, None>>,
      <<"running", None, None>>,
      <<"completed", Some("success"), None>>,
      <<"failed", None, Some("Connection timeout")>> }

CreateTask(agentId, type, input) ==
    /\ LET task == AgentTask(generateTaskId, agentId, type, "pending", input)
       IN  /\ tasks' = MapSet(tasks, task.id, task)
           /\ taskQueue' = Append(taskQueue, task.id)
           /\ ret' = [op |-> "createTask", result |-> task]
    /\ nextTaskId' = nextTaskId + 1
    /\ UNCHANGED <<levelVars, agentVars, handleVars, gateVars,
                   policyVars, tlsIn, routerVars, pkiVars>>

\* updateTaskStatus(id, status, output, error): false for an unknown id
UpdateTaskStatus(id, status, output, error) ==
    /\ IF id \notin DOMAIN tasks
       THEN /\ ret' = [op |-> "updateTaskStatus", id |-> id, status |-> status,
                       result |-> FALSE]
            /\ UNCHANGED tasks
       ELSE /\ tasks' = [tasks EXCEPT ![id] =
                  [@ EXCEPT
                     !.status = status,
                     !.output = IF Truthy(output) THEN output ELSE @,
                     !.error = IF Truthy(error) THEN error ELSE @,
                     !.startedAt = IF status = "running" /\ ~IsSome(@)
                                   THEN Some(now) ELSE @,
                     !.completedAt = IF status \in {"completed", "failed"}
                                     THEN Some(now) ELSE @]]
            /\ ret' = [op |-> "updateTaskStatus", id |-> id, status |-> status,
                       result |-> TRUE]
    /\ UNCHANGED <<taskQueue, nextTaskId, levelVars, agentVars, handleVars, gateVars,
                   policyVars, tlsIn, routerVars, pkiVars>>

\* getPendingTasks: the tasks of the ids in the queue, those pending kept
getPendingTasks ==
    LET pending == SelectSeq(taskQueue, LAMBDA id : id \in DOMAIN tasks
                                                    /\ tasks[id].status = "pending")
    IN  [k \in 1..Len(pending) |-> tasks[pending[k]]]

GetPendingTasks ==
    /\ ret' = [op |-> "getPendingTasks", result |-> getPendingTasks]
    /\ UNCHANGED <<facadeVars, policyVars, tlsIn, routerVars, pkiVars>>

\* The mutant: the first pending task of the queue is returned and left in
\* the queue.
RECURSIVE getNextTask_Peek(_)
getNextTask_Peek(queue) ==
    IF Len(queue) = 0 THEN [result |-> None, queue |-> queue]
    ELSE IF Head(queue) \in DOMAIN tasks /\ tasks[Head(queue)].status = "pending"
    THEN [result |-> Some(tasks[Head(queue)]), queue |-> queue]
    ELSE getNextTask_Peek(Tail(queue))

\* getNextTask: ids are shifted off the queue until one is of a pending task
RECURSIVE getNextTask(_)
getNextTask(queue) ==
    IF Len(queue) = 0 THEN [result |-> None, queue |-> queue]
    ELSE IF Head(queue) \in DOMAIN tasks /\ tasks[Head(queue)].status = "pending"
    THEN [result |-> Some(tasks[Head(queue)]), queue |-> Tail(queue)]
    ELSE getNextTask(Tail(queue))

GetNextTask ==
    /\ LET next == getNextTask(taskQueue)
       IN  /\ taskQueue' = next.queue
           /\ ret' = [op |-> "getNextTask", result |-> next.result]
    /\ UNCHANGED <<tasks, nextTaskId, levelVars, agentVars, handleVars, gateVars,
                   policyVars, tlsIn, routerVars, pkiVars>>

(***************************************************************************)
(* HexaGate: the facade (src/src/handles/index.ts, lines 333-456)          *)
(***************************************************************************)
\* the handler classes of initialize, in the order of its tests
InitializeOrder == <<"clearnet", "tor", "i2p", "gnunet", "dvpn">>

\* this.router.registerHandler(new XHandler()) on the registry st: the
\* handler of the type is replaced, or a new entry is added; a call in flight
\* keeps the object it holds
registerIn(st, type) ==
    LET idx == IndexIn(st.handlers, type)
        holds(c) == /\ st.calls[c].pc \in {"connecting", "awaitConnect", "awaitRoute"}
                    /\ st.calls[c].ref = RegRef(type)
        held == idx # 0 /\ \E c \in DOMAIN st.calls : holds(c)
        h == NewHandler(type, TRUE, "simulated")
    IN  [handlers |-> IF idx # 0 THEN [st.handlers EXCEPT ![idx] = h]
                      ELSE Append(st.handlers, h),
         objs |-> IF held THEN Append(st.objs, st.handlers[idx]) ELSE st.objs,
         calls |-> [c \in DOMAIN st.calls |->
                      IF idx # 0 /\ holds(c)
                      THEN [st.calls[c] EXCEPT !.ref = [type |-> type,
                                                        idx |-> Len(st.objs) + 1]]
                      ELSE st.calls[c]]]

\* the five `if (enabledNetworks.includes(...)) registerHandler(...)` from the
\* k-th on
RECURSIVE registerEnabled(_, _, _)
registerEnabled(st, enabledNetworks, k) ==
    IF k > Len(InitializeOrder) THEN st
    ELSE registerEnabled(IF InitializeOrder[k] \in enabledNetworks
                         THEN registerIn(st, InitializeOrder[k]) ELSE st,
                         enabledNetworks, k + 1)

isInitialized == initialized

\* initialize(enabledNetworks), up to the first await of connectAll
Initialize(c, enabledNetworks) ==
    /\ calls[c] = Idle
    /\ facade[c] = "none"
    /\ LET st == registerEnabled([handlers |-> handlers, objs |-> objs, calls |-> calls],
                                 enabledNetworks, 1)
           run == connectAllRun(st.handlers, 0, <<>>)
       IN  /\ handlers' = run.handlers
           /\ objs' = st.objs
           /\ calls' = IF IsSome(run.awaited)
                       THEN [st.calls EXCEPT ![c] =
                               [pc |-> "connectAll", pos |-> run.pos,
                                results |-> run.results,
                                awaited |-> Get(run.awaited), before |-> st.handlers]]
                       ELSE st.calls
    /\ facade' = [facade EXCEPT ![c] = "initialize"]
    /\ UNCHANGED <<initialized, defaultNetwork, ret, levelVars, agentVars, handleVars,
                   policyVars, tlsIn, pkiVars, taskVars>>

\* initialize resumes after `await this.router.connectAll()`
InitializeReturn(c) ==
    /\ facade[c] = "initialize"
    /\ calls[c] = Idle
    /\ initialized' = TRUE
    /\ facade' = [facade EXCEPT ![c] = "none"]
    /\ ret' = [op |-> "initialize", caller |-> c]
    /\ UNCHANGED <<routerVars, levelVars, agentVars, handleVars,
                   policyVars, tlsIn, pkiVars, taskVars>>

IsInitialized ==
    /\ ret' = [op |-> "isInitialized", result |-> isInitialized]
    /\ UNCHANGED <<facadeVars, policyVars, tlsIn, routerVars, pkiVars>>

\* The mutant: the security level of the request is not consulted.
routingRequest_IgnoresSecurityLevel(request) ==
    LET resolved == IF Truthy(request.handle) THEN resolve(Get(request.handle)) ELSE None
    IN  IF IsSome(resolved)
        THEN [request EXCEPT
                !.url = Some(Get(resolved).address),
                !.handle = None,
                !.preferredNetwork = IF IsSome(@) THEN @
                                     ELSE Some(Get(resolved).networkType)]
        ELSE request

\* navigate: the request handed to the router.  A handle that resolves gives
\* the address and, unless the caller named a network, the network; then a
\* request without network and with a security level gets
\* selectNetworkForSecurity(securityLevel)
routingRequest(request) ==
    LET resolved == IF Truthy(request.handle) THEN resolve(Get(request.handle)) ELSE None
        afterHandle ==
            IF IsSome(resolved)
            THEN [request EXCEPT
                    !.url = Some(Get(resolved).address),
                    !.handle = None,
                    !.preferredNetwork = IF IsSome(@) THEN @
                                         ELSE Some(Get(resolved).networkType)]
            ELSE request
    IN  IF ~Truthy(afterHandle.preferredNetwork) /\ Truthy(afterHandle.securityLevel)
        THEN [afterHandle EXCEPT !.preferredNetwork =
                  Some(selectNetworkForSecurity(Get(afterHandle.securityLevel)))]
        ELSE afterHandle

\* navigate(request): throws when not initialized, else goes on as
\* this.router.route(routingRequest) up to its first await
Navigate(c, request) ==
    /\ calls[c] = Idle
    /\ facade[c] = "none"
    /\ IF ~initialized
       THEN /\ ret' = [op |-> "navigate", caller |-> c, request |-> request,
                       threw |-> "HexaGate not initialized. Call initialize() first."]
            /\ UNCHANGED <<routerVars, facadeVars, policyVars, tlsIn, pkiVars>>
       ELSE RouteStart(c, routingRequest(request))

\* shutdown(), up to the first await of disconnectAll: the first handler's
\* disconnect() has run
Shutdown(c) ==
    /\ calls[c] = Idle
    /\ facade[c] = "none"
    /\ IF Len(handlers) > 0
       THEN /\ handlers' = [handlers EXCEPT ![1] = disconnect(handlers[1])]
            /\ calls' = [calls EXCEPT ![c] = [pc |-> "iterating", pos |-> 1]]
       ELSE UNCHANGED <<handlers, calls>>
    /\ facade' = [facade EXCEPT ![c] = "shutdown"]
    /\ UNCHANGED <<initialized, objs, defaultNetwork, ret, levelVars, agentVars,
                   handleVars, policyVars, tlsIn, pkiVars, taskVars>>

\* shutdown resumes after `await this.router.disconnectAll()`
ShutdownReturn(c) ==
    /\ facade[c] = "shutdown"
    /\ calls[c] = Idle
    /\ initialized' = FALSE
    /\ facade' = [facade EXCEPT ![c] = "none"]
    /\ ret' = [op |-> "shutdown", caller |-> c]
    /\ UNCHANGED <<routerVars, levelVars, agentVars, handleVars,
                   policyVars, tlsIn, pkiVars, taskVars>>

(***************************************************************************)
(* The specifications                                                      *)
(***************************************************************************)
\* the state after `new PolicyManager()` and `new UnifiedRouter()`
Constructed ==
    /\ initializeDefaultPolicies
    /\ pristine = TRUE
    /\ nextPolicyId = 0
    /\ handlers = <<NewHandler("clearnet", TRUE, "simulated")>>
    /\ objs = <<>>
    /\ defaultNetwork = "clearnet"
    /\ calls = [c \in 1..MaxCallers |-> Idle]
    /\ ret = [op |-> "constructor"]
    /\ certificates = <<>>
    /\ trustedIssuers = {}
    /\ now = 0
    /\ currentLevel = "standard"
    /\ initializeDefaultConfigs
    /\ agents = <<>>
    /\ runningAgents = {}
    /\ nextAgentId = 0
    /\ handles = <<>>
    /\ aliasMap = <<>>
    /\ initialized = FALSE
    /\ facade = [c \in 1..MaxCallers |-> "none"]
    /\ tasks = <<>>
    /\ taskQueue = <<>>
    /\ nextTaskId = 0

Init ==
    /\ Constructed
    /\ tlsIn = <<"", "">>

\* PolicyManager under any sequence of its operations
NextPolicy ==
    \/ /\ nextPolicyId < MaxPolicies
       /\ \E n \in PolicyNames, r \in RuleLists, l \in EnforcementLevels : CreatePolicy(n, r, l)
    \/ \E id \in AllPolicyIds : ActivatePolicy(id)
    \/ \E id \in AllPolicyIds : DeactivatePolicy(id)
    \/ \E id \in AllPolicyIds : RemovePolicy(id)
    \/ \E context \in Contexts : EvaluateConnection(context)

SpecPolicy == Init /\ [][NextPolicy]_vars

\* SecurityLevelManager and AgentRegistry under any sequence of their operations
NextSecurity ==
    \/ \E level \in SecurityLevels : SetLevel(level)
    \/ GetCurrentLevel
    \/ GetCurrentConfig
    \/ \E level \in SecurityLevels : GetConfig(level)
    \/ /\ nextAgentId < MaxAgents
       /\ \E type \in {"automation", "osint"} :
             RegisterAgent(type, "Test Agent", "A test agent", AgentPermissions, <<>>)
    \/ \E id \in AllAgentIds, updates \in AgentUpdates : UpdateAgent(id, updates)
    \/ \E id \in AllAgentIds : RemoveAgent(id)
    \/ \E id \in AllAgentIds : EnableAgent(id)
    \/ \E id \in AllAgentIds : DisableAgent(id)
    \/ \E id \in AllAgentIds : IsAgentRunning(id)
    \/ \E id \in AllAgentIds : StartAgent(id)
    \/ \E id \in AllAgentIds : StopAgent(id)

SpecSecurity == Init /\ [][NextSecurity]_vars

\* HandleResolver under any sequence of its operations
NextHandles ==
    \/ \E name \in HandleNames, t \in HandleNets, a \in HandleAddresses :
          RegisterHandle(name, t, a)
    \/ \E name \in HandleNames : Resolve(name)
    \/ \E name \in HandleNames : RemoveHandle(name)
    \/ \E alias \in HandleNames, target \in HandleNames : CreateAlias(alias, target)
    \/ \E alias \in HandleNames : RemoveAlias(alias)

SpecHandles == Init /\ [][NextHandles]_vars

\* AgentTaskManager under any sequence of its operations
NextTasks ==
    \/ /\ nextTaskId < MaxTasks
       /\ CreateTask("agent1", "automation", <<>>)
    \/ \E id \in AllTaskIds, u \in TaskUpdates : UpdateTaskStatus(id, u[1], u[2], u[3])
    \/ GetPendingTasks
    \/ GetNextTask

SpecTasks == Init /\ [][NextTasks]_vars

\* HandleResolver with the import of a backup among its operations
NextImport ==
    \/ NextHandles
    \/ \E list \in ImportLists : ImportHandles(list)

SpecImport == Init /\ [][NextImport]_vars

\* One HexaGate used by MaxCallers callers at the same time: initialize,
\* navigate and shutdown, and the registration of the handle "example".  The
\* request with an explicit network is the one for https://example.org, and
\* the handle's address is the only .onion address.
GateNetworks == {{"clearnet"}, {"clearnet", "tor"}}
GateRequests ==
    { Request(None, Some("https://example.com"), None, l, None) :
        l \in {None, Some("maximum")} }
    \cup { Request(Some("example"), None, None, l, None) : l \in {None, Some("maximum")} }
    \cup { Request(None, Some("https://example.org"), Some("clearnet"), Some("maximum"), None) }
NextGate ==
    \/ \E c \in Callers, enabledNetworks \in GateNetworks : Initialize(c, enabledNetworks)
    \/ \E c \in Callers : calls[c].pc = "connectAll" /\ ConnectAllStep(c)
    \/ \E c \in Callers : InitializeReturn(c)
    \/ IsInitialized
    \/ \E c \in Callers, request \in GateRequests : Navigate(c, request)
    \/ \E c \in Callers : RouteResume(c)
    \/ \E c \in Callers : RouteReturn(c)
    \/ \E c \in Callers : Shutdown(c)
    \/ \E c \in Callers : calls[c].pc = "iterating" /\ DisconnectAllStep(c)
    \/ \E c \in Callers : ShutdownReturn(c)
    \/ \E t \in HandleNets : RegisterHandle("example", t, "http://example.onion")

SpecGate == Init /\ [][NextGate]_vars

\* the policy store alone: createPolicy, getPolicy, activatePolicy,
\* deactivatePolicy and removePolicy, with up to MaxStored policies created
StoreRuleLists == {<<>>, <<Tls13Rule, CipherRule>>}
StoreLevels == {"warn", "strict"}
NextStore ==
    \/ /\ nextPolicyId < MaxStored
       /\ \E n \in PolicyNames, r \in StoreRuleLists, l \in StoreLevels : CreatePolicy(n, r, l)
    \/ \E id \in AllPolicyIds : GetPolicy(id)
    \/ \E id \in AllPolicyIds : ActivatePolicy(id)
    \/ \E id \in AllPolicyIds : DeactivatePolicy(id)
    \/ \E id \in AllPolicyIds : RemovePolicy(id)

SpecStore == Init /\ [][NextStore]_vars

\* the registry of one UnifiedRouter, used by one caller
NextRegistry ==
    \/ \E t \in NetworkTypes : RegisterHandler(t, TRUE, "simulated")
    \/ \E t \in NetworkTypes : UnregisterHandler(t)
    \/ \E t \in NetworkTypes : SetDefaultNetwork(t)
    \/ \E l \in SecurityLevels : SelectNetworkForSecurity(l)

SpecRegistry == Init /\ [][NextRegistry]_vars

\* one UnifiedRouter used by one caller, who awaits each call before the next
NextRoute ==
    \/ \E t \in RouteNets, e \in BOOLEAN, k \in HandlerKinds : RegisterHandler(t, e, k)
    \/ \E t \in RouteNets : UnregisterHandler(t)
    \/ \E r \in Requests : RouteStart(1, r)
    \/ \E o \in {"true", "false"} \cup Throws : ConnectSettle(1, o)
    \/ RouteResume(1)
    \/ RouteReturn(1)
    \/ DisconnectAllStep(1)

SpecRoute == Init /\ [][NextRoute]_vars

\* the same caller, who also sets the default network
NextRouting ==
    \/ NextRoute
    \/ \E t \in RouteNets : SetDefaultNetwork(t)

SpecRouting == Init /\ [][NextRouting]_vars

\* one UnifiedRouter, its handlers registered enabled, used by MaxCallers
\* callers at once
ConcurrentRequests ==
    { Request(None, Some("https://example.com"), n, None, None) :
        n \in {None, Some("tor")} }

NextConcurrent ==
    \/ \E t \in RouteNets, k \in HandlerKinds : RegisterHandler(t, TRUE, k)
    \/ \E c \in Callers, r \in ConcurrentRequests : RouteStart(c, r)
    \/ \E c \in Callers, o \in {"true", "false"} \cup Throws : ConnectSettle(c, o)
    \/ \E c \in Callers : RouteResume(c)
    \/ \E c \in Callers : RouteReturn(c)
    \/ \E c \in Callers : DisconnectAllStep(c)

SpecConcurrent == Init /\ [][NextConcurrent]_vars

\* one UnifiedRouter with handlers of the six classes, used by one caller who
\* awaits each call before the next
NextHandler ==
    \/ calls[1] = Idle /\ \E t \in RouteNets, e \in BOOLEAN : RegisterHandler(t, e, "simulated")
    \/ calls[1] = Idle /\ \E t \in RouteNets : UnregisterHandler(t)
    \/ calls[1] = Idle /\ \E t \in RouteNets : HandlerConnect(t)
    \/ calls[1] = Idle /\ \E t \in RouteNets : HandlerDisconnect(t)
    \/ ConnectAllStep(1)
    \/ DisconnectAllStep(1)

SpecHandler == Init /\ [][NextHandler]_vars

\* one PKIManager under any sequence of its operations, while time passes
NextPki ==
    \/ \E cert \in AddedCertificates : AddCertificate(cert)
    \/ \E id \in CertificateIds : RemoveCertificate(id)
    \/ \E issuer \in TrustableIssuers : AddTrustedIssuer(issuer)
    \/ \E issuer \in TrustableIssuers : RemoveTrustedIssuer(issuer)
    \/ \E cert \in InputCertificates : VerifyCertificate(cert)
    \/ \E k \in 1..Len(certificates) : VerifyCertificate(certificates[k])
    \/ \E subject \in Subjects, validityDays \in ValidityDays :
          GenerateSelfSignedCertificate(subject, validityDays)
    \/ Tick

SpecPki == Init /\ [][NextPki]_vars

\* the TLS-floor rule on every pair of versions major.minor whose minor has
\* at most MaxMinorDigits digits
MaxMinorDigits == 2
VersionDigits == {"0", "1", "2", "3"}
RECURSIVE DigitStrings(_)
DigitStrings(n) ==
    IF n = 0 THEN {""}
    ELSE {s \o d : s \in DigitStrings(n - 1), d \in VersionDigits}
Versions ==
    { major \o "." \o minor :
        major \in {"1", "2"},
        minor \in UNION {DigitStrings(n) : n \in 1..MaxMinorDigits} }

TlsFloorRule(minVersion) ==
    Rule("anti-downgrade", "tls_version < 1.2", "deny", Some(minVersion), None)

EvaluateTlsFloor ==
    /\ ret.op = "constructor"
    /\ ret' = [op |-> "evaluateAntiDowngrade",
               version |-> tlsIn[1], minVersion |-> tlsIn[2],
               result |-> evaluateAntiDowngrade(TlsFloorRule(tlsIn[2]),
                             Context(Some(tlsIn[1]), None, None, None))]
    /\ UNCHANGED <<policyVars, routerVars, tlsIn, pkiVars, facadeVars>>

InitTls ==
    /\ Constructed
    /\ tlsIn \in Versions \X Versions

SpecTls == InitTls /\ [][EvaluateTlsFloor]_vars

(***************************************************************************)
(* The claims                                                              *)
(***************************************************************************)
Evaluated == ret.op = "evaluateConnection"
InSeq(seq, x) == \E k \in 1..Len(seq) : seq[k] = x

\* C1: on a PolicyManager on which no policy was created, activated,
\* deactivated or removed since construction, evaluateConnection of any
\* context whose tlsVersion is "1.0" returns allowed = false with a violation
\* whose message names the TLS version.
C1_FailClosedDefault ==
    (pristine /\ Evaluated /\ ret.context.tlsVersion = Some("1.0"))
        => /\ ret.result.allowed = FALSE
           /\ \E k \in 1..Len(ret.result.violations) :
                 Includes(ret.result.violations[k].message, "TLS version")

C1_Witness ==
    /\ pristine
    /\ Evaluated
    /\ ret.context.tlsVersion = Some("1.0")
    /\ ret.context.cipherSuite = None
    /\ ret.result.allowed = FALSE
    /\ Len(ret.result.violations) = 1

\* the versions major.minor as pairs of numbers, and their order
MajorMinor(v) ==
    LET dot == CHOOSE i \in 1..Len(v) : Char(v, i) = "."
    IN  <<DecimalValue(SubSeq(v, 1, dot - 1)), DecimalValue(SubSeq(v, dot + 1, Len(v)))>>
PairBelow(a, b) == a[1] < b[1] \/ (a[1] = b[1] /\ a[2] < b[2])

\* C2: the TLS-floor rule triggers iff (major, minor) of the context's version
\* is below (major, minor) of the minimum, both compared as numbers; so "1.10"
\* is not rejected by a minimum of "1.2".
C2_NumericVersionComparison ==
    ret.op = "evaluateAntiDowngrade"
        => (IsSome(ret.result)
              <=> PairBelow(MajorMinor(ret.version), MajorMinor(ret.minVersion)))

\* the rules of the active policies that evaluateRule finds triggered by the
\* context of the last evaluation, each as the entry evaluateConnection
\* reports for it
EntryOf(policy, rule) ==
    PolicyViolation(policy, rule, Get(evaluateRule(rule, ret.context)))
TriggeredRules ==
    LET active == getActivePolicies
    IN  { pr \in UNION { {<<active[p], active[p].rules[k]>> :
                             k \in 1..Len(active[p].rules)} : p \in 1..Len(active) } :
            Truthy(evaluateRule(pr[2], ret.context)) }

\* C3, as claimed: every triggered rule of an active policy at level warn is
\* reported as a warning, and every triggered rule of an active policy at
\* level block or strict is reported as a violation and forces allowed =
\* false, whatever the rule's action.
C3_AggregationByLevelOnly ==
    Evaluated =>
        \A pr \in TriggeredRules :
            IF pr[1].enforcementLevel = "warn"
            THEN InSeq(ret.result.warnings, EntryOf(pr[1], pr[2]))
            ELSE /\ InSeq(ret.result.violations, EntryOf(pr[1], pr[2]))
                 /\ ret.result.allowed = FALSE

\* C3, amended: a triggered rule of an active policy is reported as a
\* violation, and forces allowed = false, exactly when its action is deny and
\* the policy's level is block or strict; every other triggered rule (level
\* warn, or action allow or prompt at any level) is reported as a warning.
C3_AggregationByLevelAndAction ==
    Evaluated =>
        \A pr \in TriggeredRules :
            IF pr[2].action = "deny" /\ pr[1].enforcementLevel \in {"block", "strict"}
            THEN /\ InSeq(ret.result.violations, EntryOf(pr[1], pr[2]))
                 /\ ~InSeq(ret.result.warnings, EntryOf(pr[1], pr[2]))
                 /\ ret.result.allowed = FALSE
            ELSE /\ InSeq(ret.result.warnings, EntryOf(pr[1], pr[2]))
                 /\ ~InSeq(ret.result.violations, EntryOf(pr[1], pr[2]))

\* a triggered prompt rule of a strict policy was reported as a warning, and
\* a triggered deny rule of a warn policy too
C3_Witness ==
    /\ Evaluated
    /\ \E k \in 1..Len(ret.result.warnings) :
          /\ ret.result.warnings[k].rule.action = "prompt"
          /\ policies[ret.result.warnings[k].policyId].enforcementLevel = "strict"
    /\ ret.result.allowed = TRUE

\* C4: allowed is false iff there is at least one violation; every violation
\* comes from a policy whose level is not warn; and the active policies at
\* level warn alone never make allowed false.
C4_AllowedIffNoViolation ==
    Evaluated =>
        /\ (ret.result.allowed = FALSE) <=> (Len(ret.result.violations) > 0)
        /\ \A k \in 1..Len(ret.result.violations) :
              policies[ret.result.violations[k].policyId].enforcementLevel # "warn"
        /\ (\A p \in 1..Len(getActivePolicies) :
                getActivePolicies[p].enforcementLevel = "warn")
              => ret.result.allowed = TRUE

\* only a warn policy is active, one of its deny rules is triggered, and the
\* connection is allowed
C4_Witness ==
    /\ Evaluated
    /\ Len(getActivePolicies) = 1
    /\ getActivePolicies[1].enforcementLevel = "warn"
    /\ \E k \in 1..Len(ret.result.warnings) : ret.result.warnings[k].rule.action = "deny"
    /\ ret.result.allowed = TRUE

Routed == ret.op = "route"
\* the network a request asks for
Asked(request) ==
    IF IsSome(request.preferredNetwork) THEN Get(request.preferredNetwork)
    ELSE defaultNetwork
HandlerFailed ==
    ret.connect \in {"false"} \cup Throws \/ ret.routed \in Throws

\* C5: route never throws: every call completes with a RoutingResponse, and
\* when the handler's connect() or route() failed or threw in the call, the
\* response has success = false and its error set.
C5_RouteReportsEveryFailure ==
    (Routed /\ HandlerFailed)
        => /\ ret.response.success = FALSE
           /\ IsSome(ret.response.error)

\* C6: route against a registered but disabled handler returns success =
\* false with an error naming the requested network, calls neither connect
\* nor route (no handler's state or enabled flag changes, the registry and
\* the calls in flight stay as they are) and uses no other handler.
C6_DisabledHandlerRoute ==
    [][\A r \in Requests :
          ( /\ RouteStart(1, r)
            /\ has(Asked(r))
            /\ ~handlers[IndexOf(Asked(r))].enabled )
          => /\ handlers' = handlers
             /\ objs' = objs
             /\ calls' = calls
             /\ ret'.op = "route"
             /\ ret'.request = r
             /\ ret'.response.success = FALSE
             /\ Includes(Get(ret'.response.error), Asked(r))
             /\ ret'.response.networkUsed = Asked(r)
             /\ ret'.connect = "none"
             /\ ret'.routed = "none"]_vars

\* a route to the disabled tor handler has failed while the enabled default
\* handler stayed disconnected
C6_Witness ==
    /\ Routed
    /\ ret.response.error = Some("Network tor is disabled")
    /\ has("tor") /\ ~handlers[IndexOf("tor")].enabled
    /\ has("clearnet") /\ handlers[IndexOf("clearnet")].enabled
    /\ handlers[IndexOf("clearnet")].state = "disconnected"

\* C7: route to a network type with no registered handler returns success =
\* false with a 'No handler registered' error naming that network, and changes
\* the state of no handler and of the registry.
C7_UnregisteredNetworkRoute ==
    [][\A r \in Requests :
          ( /\ RouteStart(1, r)
            /\ ~has(Asked(r)) )
          => /\ handlers' = handlers
             /\ objs' = objs
             /\ calls' = calls
             /\ defaultNetwork' = defaultNetwork
             /\ ret'.op = "route"
             /\ ret'.request = r
             /\ ret'.response.success = FALSE
             /\ Includes(Get(ret'.response.error), "No handler registered")
             /\ Includes(Get(ret'.response.error), Asked(r))
             /\ ret'.response.networkUsed = Asked(r)]_vars

\* a route that preferred tor failed for want of a handler, with the default
\* handler registered and still disconnected
C7_Witness ==
    /\ Routed
    /\ ret.request.preferredNetwork = Some("tor")
    /\ ret.response.error = Some("No handler registered for network type: tor")
    /\ ~has("tor")
    /\ has("clearnet") /\ handlers[IndexOf("clearnet")].state = "disconnected"

\* the first network of a preference list that is registered, else the default
RECURSIVE FirstRegistered(_, _, _)
FirstRegistered(preferences, registered, default) ==
    IF preferences = <<>> THEN default
    ELSE IF Head(preferences) \in registered THEN Head(preferences)
    ELSE FirstRegistered(Tail(preferences), registered, default)

\* C8: selectNetworkForSecurity follows the priority table: maximum returns
\* tor, else i2p, else the default network; elevated returns dvpn, else
\* gnunet, else tor, else the default network; standard returns the default
\* network.
C8_SecurityPriorityTable ==
    ret.op = "selectNetworkForSecurity"
        => ret.result =
             CASE ret.level = "maximum" ->
                    FirstRegistered(<<"tor", "i2p">>, ret.registered, ret.default)
               [] ret.level = "elevated" ->
                    FirstRegistered(<<"dvpn", "gnunet", "tor">>, ret.registered, ret.default)
               [] ret.level = "standard" ->
                    ret.default

\* with clearnet, tor, i2p, dvpn and gnunet all registered, maximum gave tor
C8_Witness ==
    /\ ret.op = "selectNetworkForSecurity"
    /\ ret.level = "maximum"
    /\ ret.registered = {"clearnet", "tor", "i2p", "dvpn", "gnunet"}
    /\ ret.result = "tor"

\* C9: in every execution of route, the handler's route(address) is invoked
\* only while that handler's state is connected.
C9_RouteOnlyWhileConnected ==
    [][\A c \in Callers :
          (calls[c].pc # "awaitRoute" /\ calls'[c].pc = "awaitRoute")
          => LET ref == calls'[c].ref
                 h == IF ref.idx = 0 THEN handlers'[IndexIn(handlers', ref.type)]
                      ELSE objs'[ref.idx]
             IN  h.state = "connected"]_vars

\* C10: at most one connect sequence of a handler is in flight at any time.
C10_SingleConnectInFlight ==
    \A c, d \in Callers :
        (c # d /\ calls[c].pc = "connecting" /\ calls[d].pc = "connecting")
            => calls[c].ref # calls[d].ref

\* C11: the connectionId returned by a route call is unique per call: a route
\* call, successful or failed, never returns the connectionId that the route
\* call before it returned.
C11_ConnectionIdUniquePerCall ==
    [][(ret.op = "route" /\ ret'.op = "route" /\ ret' # ret)
          => ret'.response.connectionId # ret.response.connectionId]_vars

\* C12: connect() on a handler that is already connected, any number of
\* times, resolves true and leaves the handler connected, with no other
\* change to that handler, to any other handler or to the router.
C12_IdempotentConnect ==
    [][\A t \in NetworkTypes :
          ( /\ HandlerConnect(t)
            /\ has(t)
            /\ handlers[IndexOf(t)].state = "connected" )
          => /\ ret'.result = TRUE
             /\ handlers'[IndexOf(t)].state = "connected"
             /\ handlers' = handlers
             /\ objs' = objs
             /\ calls' = calls
             /\ defaultNetwork' = defaultNetwork]_vars

\* connect() was called on the connected tor handler and tor is connected
C12_Witness ==
    /\ ret.op = "connect"
    /\ ret.type = "tor"
    /\ ret.before.state = "connected"
    /\ ret.result = TRUE
    /\ has("tor") /\ handlers[IndexOf("tor")].state = "connected"

\* the step is a call on the handler objects, which all stay registered
SameHandlerObjects ==
    /\ Len(handlers') = Len(handlers)
    /\ ret'.op \notin {"registerHandler", "unregisterHandler"}

TypesIn(hs) == {hs[i].type : i \in 1..Len(hs)}

\* C14: registerHandler keeps exactly one handler per network type and the
\* last registration wins: getHandler then returns the handler just registered
\* and the handlers of the other types are the ones they were;
\* unregisterHandler returns true if and only if a handler of that type was
\* registered, and afterwards the type is absent from getRegisteredNetworks.
C14_RegisterLastWinsUnregisterIff ==
    [][/\ \A t \in NetworkTypes, e \in BOOLEAN, k \in HandlerKinds :
            RegisterHandler(t, e, k)
            => /\ getHandlerIn(handlers', t) = Some(NewHandler(t, e, k))
               /\ Cardinality({i \in 1..Len(handlers') : handlers'[i].type = t}) = 1
               /\ TypesIn(handlers') = TypesIn(handlers) \cup {t}
               /\ \A u \in NetworkTypes \ {t} :
                    getHandlerIn(handlers', u) = getHandlerIn(handlers, u)
       /\ \A t \in NetworkTypes :
            UnregisterHandler(t)
            => /\ ret'.result = (t \in TypesIn(handlers))
               /\ t \notin TypesIn(handlers')
               /\ \A u \in NetworkTypes \ {t} :
                    getHandlerIn(handlers', u) = getHandlerIn(handlers, u)
      ]_vars

\* a second registration of tor, disabled, replaced the enabled one that a
\* route call had connected
C14_Witness ==
    /\ ret.op = "registerHandler"
    /\ ret.type = "tor"
    /\ getHandler("tor") = Some(NewHandler("tor", FALSE, "simulated"))
    /\ Len(objs) = 1
    /\ objs[1] = [NewHandler("tor", TRUE, "simulated") EXCEPT !.state = "connected"]

C16_DisconnectAllOnlyEnabled ==
    [][\A c \in Callers :
          DisconnectAllStep(c)
          => /\ \A k \in 1..Len(handlers) :
                  ~handlers[k].enabled => handlers'[k].state = handlers[k].state
             /\ calls'[c] = Idle
                  => \A k \in 1..Len(handlers') :
                        handlers'[k].enabled => handlers'[k].state = "disconnected"]_vars

\* C16, amended: disconnectAll applies to every registered handler, enabled
\* or disabled: after it completes every registered handler is in state
\* disconnected.
C16_DisconnectAllEveryHandler ==
    (ret.op = "disconnectAll" /\ \A c \in Callers : calls[c] = Idle)
        => \A k \in 1..Len(handlers) : handlers[k].state = "disconnected"

\* disconnectAll has completed on a registry that holds the disabled tor
\* handler next to the enabled clearnet handler
C16_Witness ==
    /\ ret.op = "disconnectAll"
    /\ \A c \in Callers : calls[c] = Idle
    /\ getHandler("tor") = Some(NewHandler("tor", FALSE, "simulated"))
    /\ getHandler("clearnet") = Some(NewHandler("clearnet", TRUE, "simulated"))

Verified == ret.op = "verifyCertificate"
HasError(result, text) ==
    \E k \in 1..Len(result.errors) : Includes(result.errors[k], text)

\* C17: verifyCertificate reports valid = false with a 'not yet valid' error
\* whenever now < validFrom, and with an 'expired' error whenever validTo <
\* now; the two tests are independent, so a certificate with now < validFrom
\* and validTo < now gets both errors; valid is true iff the error list is
\* empty.
C17_ValidityWindowErrors ==
    Verified
        => /\ ret.at < ret.cert.validFrom
                => ~ret.result.valid /\ HasError(ret.result, "not yet valid")
           /\ ret.cert.validTo < ret.at
                => ~ret.result.valid /\ HasError(ret.result, "expired")
           /\ (ret.at < ret.cert.validFrom /\ ret.cert.validTo < ret.at)
                => Len(ret.result.errors) = 2
           /\ ret.result.valid <=> ret.result.errors = <<>>

\* a certificate that starts one millisecond after now and ended one
\* millisecond before it was verified and got both errors
C17_Witness ==
    /\ Verified
    /\ ret.cert.validFrom = ret.at + 1
    /\ ret.cert.validTo = ret.at - 1
    /\ ret.result.valid = FALSE
    /\ ret.result.errors = <<"Certificate is not yet valid", "Certificate has expired">>

\* C18: the validity window is [validFrom, validTo): a certificate whose
\* validTo equals now exactly is verified as expired, valid = false with the
\* 'expired' error.
C18_ExclusiveUpperBound ==
    (Verified /\ ret.cert.validTo = ret.at)
        => ~ret.result.valid /\ HasError(ret.result, "expired")

\* C19: verifyCertificate returns trusted = true iff the issuer is in the
\* trusted-issuer set at the time of the call or the certificate is marked
\* isPrivate; an untrusted certificate gets exactly one warning and no error
\* for it, so valid depends on the validity window alone.
C19_TrustedIffIssuerOrPrivate ==
    Verified
        => /\ ret.result.trusted
                <=> (ret.cert.issuer \in ret.issuers \/ ret.cert.isPrivate)
           /\ ~ret.result.trusted
                => ret.result.warnings = <<"Certificate issuer is not in trusted list">>
           /\ ret.result.trusted => ret.result.warnings = <<>>
           /\ \A k \in 1..Len(ret.result.errors) :
                ret.result.errors[k] \in {"Certificate is not yet valid",
                                          "Certificate has expired"}
           /\ ret.result.valid
                <=> (ret.cert.validFrom <= ret.at /\ ret.at <= ret.cert.validTo)

\* a certificate inside its window, not private, of an issuer that is not
\* trusted while another issuer is: valid, not trusted, one warning
C19_Witness ==
    /\ Verified
    /\ ret.cert.issuer = "CN=Unknown CA"
    /\ ~ret.cert.isPrivate
    /\ ret.issuers = {"CN=Trusted CA"}
    /\ ret.result.valid
    /\ ~ret.result.trusted
    /\ ret.result.errors = <<>>
    /\ Len(ret.result.warnings) = 1

\* cert has the shape of a certificate that generateSelfSignedCertificate
\* returned at the time cert.validFrom
IsSelfSigned(cert) ==
    \E id \in CertificateIds, subject \in Subjects, validityDays \in ValidityDays,
       serialNumber \in SerialNumbers :
        cert = [selfSignedCertificate(id, subject, validityDays, serialNumber)
                  EXCEPT !.validFrom = cert.validFrom,
                         !.validTo = cert.validFrom + validityDays * MsPerDay]

\* C20: every certificate that generateSelfSignedCertificate returns has
\* issuer equal to subject, isPrivate = true and trusted = true, whatever the
\* trusted-issuer set contains, and verifyCertificate on such a certificate
\* reports trusted = true whatever the trusted-issuer set has become.
C20_SelfSignedAlwaysTrusted ==
    /\ ret.op = "generateSelfSignedCertificate"
          => /\ ret.result.subject = ret.subject
             /\ ret.result.issuer = ret.result.subject
             /\ ret.result.isPrivate = TRUE
             /\ ret.result.trusted = TRUE
             /\ getCertificate(ret.result.id) = Some(ret.result)
    /\ \A k \in 1..Len(certificates) :
          IsSelfSigned(certificates[k]) => verifyCertificate(certificates[k]).trusted
    /\ (Verified /\ IsSelfSigned(ret.cert)) => ret.result.trusted

\* a stored self-signed certificate was verified as trusted, after the time of
\* its generation, while the trusted-issuer set was empty
C20_Witness ==
    /\ Verified
    /\ IsSelfSigned(ret.cert)
    /\ getCertificate(ret.cert.id) = Some(ret.cert)
    /\ ret.issuers = {}
    /\ ret.result.trusted
    /\ ret.at > ret.cert.validFrom

(***************************************************************************)
(* C21: every policy created by createPolicy is stored under the id the    *)
(* call returns with the name, the rules in order and the enforcement      *)
(* level it was given, and getPolicy(id) keeps returning that value across *)
(* every operation other than removePolicy(id): creation, activation,      *)
(* deactivation and removal of other policies leave it alone.              *)
(***************************************************************************)
C21_PolicyRoundTrip ==
    [][ /\ \A n \in PolicyNames, r \in StoreRuleLists, l \in StoreLevels :
              CreatePolicy(n, r, l) =>
                  /\ ret'.result.name = n
                  /\ ret'.result.rules = r
                  /\ ret'.result.enforcementLevel = l
                  /\ getPolicyIn(policies', ret'.result.id) = Some(ret'.result)
        /\ \A id \in DOMAIN policies :
              ~RemovePolicy(id) => getPolicyIn(policies', id) = getPolicy(id)
        /\ \A id \in AllPolicyIds :
              GetPolicy(id) /\ id \in DOMAIN policies =>
                  ret'.result = Some(policies[id]) ]_vars

\* two created policies are stored, the second was just removed or touched
\* and getPolicy of the first still answers with it
C21_Witness ==
    /\ ret.op = "removePolicy"
    /\ ret.id = "policy_2"
    /\ ret.result
    /\ nextPolicyId = 2
    /\ getPolicy("policy_1") # None

\* the ids generatePolicyId has handed out so far, and the default policy's
IssuedPolicyIds ==
    {DefaultPolicyId} \cup {"policy_" \o ToString(n) : n \in 1..nextPolicyId}
ResultEntries ==
    {ret.result.violations[k] : k \in 1..Len(ret.result.violations)}
        \cup {ret.result.warnings[k] : k \in 1..Len(ret.result.warnings)}

(***************************************************************************)
(* C22: removePolicy(id) of a stored policy returns true, leaves           *)
(* getPolicy(id) null and id out of the active set, activated or not; an   *)
(* id once removed is never stored again, the active set only ever names   *)
(* stored policies, and every violation and warning evaluateConnection     *)
(* reports comes from a policy that is stored and active.                  *)
(***************************************************************************)
C22_RemovePolicy ==
    /\ [](/\ \A k \in 1..Len(activePolicies) : activePolicies[k] \in DOMAIN policies
          /\ Evaluated =>
                \A e \in ResultEntries :
                    /\ e.policyId \in DOMAIN policies
                    /\ SetHas(activePolicies, e.policyId))
    /\ [][ /\ \A id \in DOMAIN policies :
                 RemovePolicy(id) =>
                     /\ ret'.result = TRUE
                     /\ getPolicyIn(policies', id) = None
                     /\ ~SetHas(activePolicies', id)
           /\ \A id \in IssuedPolicyIds \ DOMAIN policies :
                 getPolicyIn(policies', id) = None ]_vars

\* an activated policy was just removed
C22_Witness ==
    /\ ret.op = "removePolicy"
    /\ ret.id = "policy_1"
    /\ ret.result
    /\ ret.wasActive
    /\ getPolicy("policy_1") = None
    /\ activePolicies = <<DefaultPolicyId>>
    /\ ~pristine

(***************************************************************************)
(* C23: until the first createPolicy, activatePolicy, deactivatePolicy or  *)
(* removePolicy a PolicyManager holds exactly one policy, named            *)
(* "Anti-Downgrade Protection", at level strict, and its active set is     *)
(* exactly that policy; createPolicy leaves the policy it creates          *)
(* inactive, and an id enters the active set only by activatePolicy(id).   *)
(***************************************************************************)
C23_DefaultPolicies ==
    /\ [](pristine =>
            /\ DOMAIN policies = {DefaultPolicyId}
            /\ policies[DefaultPolicyId].name = "Anti-Downgrade Protection"
            /\ policies[DefaultPolicyId].enforcementLevel = "strict"
            /\ activePolicies = <<DefaultPolicyId>>)
    /\ [][ /\ \A n \in PolicyNames, r \in StoreRuleLists, l \in StoreLevels :
                 CreatePolicy(n, r, l) => ~SetHas(activePolicies', ret'.result.id)
           /\ \A id \in AllPolicyIds :
                 (~SetHas(activePolicies, id) /\ SetHas(activePolicies', id))
                     => ActivatePolicy(id) ]_vars

\* a created policy is stored and not active
C23_Witness ==
    /\ ret.op = "createPolicy"
    /\ ret.result.id \in DOMAIN policies
    /\ ~SetHas(activePolicies, ret.result.id)
    /\ activePolicies = <<DefaultPolicyId>>

\* the same context, or certificate, with the value of `trusted` flipped
FlipTrusted(cert) == [cert EXCEPT !.trusted = ~@]
FlipContextTrusted(context) ==
    [context EXCEPT !.certificate = Some(FlipTrusted(Get(@)))]

(***************************************************************************)
(* C24: the certificate's `trusted` field is never read for a decision:    *)
(* evaluateConnection returns the same result for a context and for the    *)
(* same context with certificate.trusted flipped, and verifyCertificate    *)
(* returns the same result for a certificate and for the same certificate  *)
(* with trusted flipped.                                                   *)
(***************************************************************************)
C24_TrustedFieldAdvisory ==
    /\ (Evaluated /\ IsSome(ret.context.certificate))
           => evaluateConnection(FlipContextTrusted(ret.context)) = ret.result
    /\ (Verified /\ ret.at = now /\ ret.issuers = trustedIssuers)
           => verifyCertificate(FlipTrusted(ret.cert)) = ret.result

(***************************************************************************)
(* C26: the security level profiles are the fixed table standard ->        *)
(* (TLS 1.2, HSTS false), elevated -> (TLS 1.2, HSTS true), maximum ->     *)
(* (TLS 1.3, HSTS true), with allowSelfSigned false at every level, and no *)
(* operation changes it; getCurrentLevel is standard after construction    *)
(* and after that the argument of the most recent setLevel.                *)
(***************************************************************************)
C26_SecurityLevelProfiles ==
    /\ [](/\ DOMAIN levelConfigs = SecurityLevels
          /\ getConfig("standard") = Some(SecurityLevelConfig("1.2", TRUE, FALSE, FALSE))
          /\ getConfig("elevated") = Some(SecurityLevelConfig("1.2", TRUE, FALSE, TRUE))
          /\ getConfig("maximum") = Some(SecurityLevelConfig("1.3", TRUE, FALSE, TRUE))
          /\ compareTlsVersions(levelConfigs["standard"].minTlsVersion,
                                levelConfigs["elevated"].minTlsVersion) <= 0
          /\ compareTlsVersions(levelConfigs["elevated"].minTlsVersion,
                                levelConfigs["maximum"].minTlsVersion) <= 0
          /\ \A level \in SecurityLevels : ~levelConfigs[level].allowSelfSigned
          /\ ret.op = "constructor" => getCurrentLevel = "standard"
          /\ ret.op = "getCurrentLevel" => ret.result = currentLevel
          /\ ret.op = "getCurrentConfig" => ret.result = levelConfigs[currentLevel])
    /\ [][ /\ \A level \in SecurityLevels : SetLevel(level) => currentLevel' = level
           /\ (\A level \in SecurityLevels : ~SetLevel(level))
                  => currentLevel' = currentLevel ]_vars

\* the level was set to maximum, other operations followed, and
\* getCurrentLevel answers maximum
C26_Witness ==
    /\ ret.op = "getCurrentLevel"
    /\ ret.result = "maximum"
    /\ nextAgentId > 0

(***************************************************************************)
(* C30: every running agent is registered and enabled, and startAgent on   *)
(* a disabled or unknown agent returns false and leaves the running set    *)
(* unchanged.                                                              *)
(***************************************************************************)
C30_DisabledAgentNeverRunning ==
    /\ [](\A id \in AllAgentIds :
             isAgentRunning(id) => (id \in DOMAIN agents /\ agents[id].enabled))
    /\ [][ \A id \in AllAgentIds :
             (StartAgent(id) /\ (id \notin DOMAIN agents \/ ~agents[id].enabled))
                 => (ret'.result = FALSE /\ runningAgents' = runningAgents) ]_vars

\* the handle and alias names of the model in lower case without surrounding
\* white space
NormalNames == {"alice", "bob", "alias"}

(***************************************************************************)
(* C29: registerHandle with a name that, lower-cased and trimmed, is a     *)
(* registered handle throws and leaves the handles and the aliases as they *)
(* were; createAlias throws when the alias is, after the same              *)
(* normalisation, a registered handle or when the target is not one, and   *)
(* leaves the aliases and the handles as they were.  Handles and aliases   *)
(* are stored under normalised names only.                                 *)
(***************************************************************************)
C29_HandleMisuseThrows ==
    /\ [](/\ DOMAIN handles \subseteq NormalNames
          /\ DOMAIN aliasMap \subseteq NormalNames
          /\ \A k \in DOMAIN handles : handles[k].name = k)
    /\ [][ /\ (/\ ret'.op = "registerHandle"
                /\ normalizeHandleName(ret'.name) \in DOMAIN handles)
                   => /\ ret'.threw
                      /\ handles' = handles
                      /\ aliasMap' = aliasMap
           /\ (/\ ret'.op = "createAlias"
                /\ \/ normalizeHandleName(ret'.alias) \in DOMAIN handles
                   \/ normalizeHandleName(ret'.target) \notin DOMAIN handles)
                   => /\ ret'.threw
                      /\ aliasMap' = aliasMap
                      /\ handles' = handles ]_vars

\* " Alice " was refused because "alice" is registered, while an alias exists
C29_Witness ==
    /\ ret.op = "registerHandle"
    /\ ret.name = " Alice "
    /\ ret.threw
    /\ "alice" \in DOMAIN handles
    /\ DOMAIN aliasMap # {}

\* the network the router took for caller c in the step: the call's, or the
\* early return's
NetworkTaken(cs, r, c) ==
    IF cs[c] # Idle THEN cs[c].networkType ELSE r.response.networkUsed
NoNetworkButLevel(request) ==
    ~IsSome(request.preferredNetwork) /\ IsSome(request.securityLevel)
ResolvesHandle(request) ==
    Truthy(request.handle) /\ IsSome(resolve(Get(request.handle)))

\* C27, as claimed: a navigate on an initialized HexaGate whose request
\* names no preferredNetwork and gives a securityLevel is routed over
\* selectNetworkForSecurity(securityLevel), be the destination a url or a
\* handle.
C27_NavigateBySecurityLevel ==
    [][ \A c \in Callers, request \in GateRequests :
          (Navigate(c, request) /\ initialized /\ NoNetworkButLevel(request))
              => NetworkTaken(calls', ret', c)
                     = selectNetworkForSecurity(Get(request.securityLevel)) ]_vars

(***************************************************************************)
(* C27, amended: such a request is routed over                             *)
(* selectNetworkForSecurity(securityLevel) when its destination is a url   *)
(* or a handle that does not resolve; when the handle resolves, it is      *)
(* routed over the networkType of the handle.                              *)
(***************************************************************************)
C27_NavigateBySecurityLevelOrHandle ==
    [][ \A c \in Callers, request \in GateRequests :
          (Navigate(c, request) /\ initialized /\ NoNetworkButLevel(request))
              => NetworkTaken(calls', ret', c)
                     = IF ResolvesHandle(request)
                       THEN Get(resolve(Get(request.handle))).networkType
                       ELSE selectNetworkForSecurity(Get(request.securityLevel)) ]_vars

\* the request for https://example.com at level maximum, which names no
\* network, was routed over tor
C27_Witness ==
    /\ ret.op = "route"
    /\ ret.request.url = Some("https://example.com")
    /\ ret.request.securityLevel = Some("maximum")
    /\ ret.response.success
    /\ ret.response.networkUsed = "tor"

\* C28: isInitialized is false after construction, true when initialize
\* completes and false when shutdown completes; navigate throws 'not
\* initialized' and leaves the router alone whenever isInitialized is false,
\* and goes on to the router's route otherwise; when shutdown completes every
\* registered handler is disconnected.
C28_Lifecycle ==
    /\ [](ret.op = "constructor" => ~isInitialized)
    /\ [][ /\ \A c \in Callers : InitializeReturn(c) => initialized'
           /\ \A c \in Callers : ShutdownReturn(c) =>
                 /\ ~initialized'
                 /\ \A k \in 1..Len(handlers') : getState(handlers'[k]) = "disconnected"
           /\ \A c \in Callers, request \in GateRequests :
                 Navigate(c, request) =>
                     IF ~initialized
                     THEN /\ ret'.op = "navigate"
                          /\ Includes(ret'.threw, "not initialized")
                          /\ UNCHANGED routerVars
                     ELSE \/ calls'[c].pc \in {"awaitConnect", "awaitRoute"}
                          \/ ret'.op = "route" /\ ret'.caller = c ]_vars

(***************************************************************************)
(* C36: every id of the active set is the id of a stored policy;           *)
(* activatePolicy of an id that is not stored returns false and leaves the *)
(* active set as it was, activatePolicy of a stored id returns true and    *)
(* leaves the id active, and deactivatePolicy returns true iff the id was  *)
(* active and leaves it inactive.                                          *)
(***************************************************************************)
C36_ActiveSetIsStored ==
    /\ [](\A k \in 1..Len(activePolicies) : getPolicy(activePolicies[k]) # None)
    /\ [][ /\ \A id \in AllPolicyIds :
                 ActivatePolicy(id) =>
                     IF getPolicy(id) = None
                     THEN ret'.result = FALSE /\ activePolicies' = activePolicies
                     ELSE ret'.result = TRUE /\ SetHas(activePolicies', id)
           /\ \A id \in AllPolicyIds :
                 DeactivatePolicy(id) =>
                     /\ ret'.result = SetHas(activePolicies, id)
                     /\ ~SetHas(activePolicies', id) ]_vars

\* activatePolicy of an id whose policy was created and removed was refused
C36_Witness ==
    /\ ret.op = "activatePolicy"
    /\ ret.id = "policy_1"
    /\ ret.result = FALSE
    /\ nextPolicyId > 0
    /\ ~SetHas(activePolicies, "policy_1")

\* the rule types evaluateRule has a case for
RecognisedTypes == {"anti-downgrade", "certificate"}
OnlyUnrecognised(policy) ==
    \A k \in 1..Len(policy.rules) : policy.rules[k].type \notin RecognisedTypes
EmptyResult == [allowed |-> TRUE, violations |-> <<>>, warnings |-> <<>>]

(***************************************************************************)
(* C33: rules of the types network and custom are inert: no violation and  *)
(* no warning of an evaluateConnection result comes from such a rule, and  *)
(* the result is the one the active policies give without the policies     *)
(* made only of such rules, whatever their level and their rules' actions. *)
(***************************************************************************)
C33_UnrecognisedRulesInert ==
    Evaluated =>
        /\ \A e \in ResultEntries : e.rule.type \in RecognisedTypes
        /\ ret.result = evaluatePolicies(
                            SelectSeq(getActivePolicies,
                                      LAMBDA policy : ~OnlyUnrecognised(policy)),
                            1, ret.context, EmptyResult)

\* a strict policy of a network rule with action deny and a custom rule is
\* the only active policy, and the connection is allowed
C33_Witness ==
    /\ Evaluated
    /\ Len(getActivePolicies) = 1
    /\ getActivePolicies[1].rules = <<NetworkRule, CustomRule>>
    /\ getActivePolicies[1].enforcementLevel = "strict"
    /\ ret.context.tlsVersion = Some("1.0")
    /\ ret.result = EmptyResult

\* the triggered rules of the active policies from policy p, rule k on, in
\* policy order and then rule order, as the entries they are reported as
RECURSIVE TriggeredFrom(_, _, _, _)
TriggeredFrom(active, p, k, context) ==
    IF p > Len(active) THEN <<>>
    ELSE IF k > Len(active[p].rules) THEN TriggeredFrom(active, p + 1, 1, context)
    ELSE LET rule == active[p].rules[k]
             message == evaluateRule(rule, context)
         IN  (IF Truthy(message)
              THEN <<[entry |-> PolicyViolation(active[p], rule, Get(message)),
                      blocking |-> isBlocking(active[p], rule)]>>
              ELSE <<>>)
             \o TriggeredFrom(active, p, k + 1, context)
EntriesOf(triggered) == [k \in 1..Len(triggered) |-> triggered[k].entry]

(***************************************************************************)
(* C34: evaluateConnection evaluates every rule of every active policy:    *)
(* the violations are the blocking triggered rules and the warnings the    *)
(* other triggered rules, each list in policy-activation order and then    *)
(* rule order, so their number is the number of triggered rules; under the *)
(* default policy alone a context with TLS 1.0, a weak cipher and          *)
(* certificateExpired gets three violations.                               *)
(***************************************************************************)
C34_NoShortCircuit ==
    Evaluated =>
        LET triggered == TriggeredFrom(getActivePolicies, 1, 1, ret.context)
        IN  /\ ret.result.violations
                 = EntriesOf(SelectSeq(triggered, LAMBDA t : t.blocking))
            /\ ret.result.warnings
                 = EntriesOf(SelectSeq(triggered, LAMBDA t : ~t.blocking))
            /\ Len(ret.result.violations) + Len(ret.result.warnings) = Len(triggered)
            /\ (/\ pristine
                /\ ret.context.tlsVersion = Some("1.0")
                /\ ret.context.cipherSuite = Some("RC4-SHA")
                /\ ret.context.certificateExpired = Some(TRUE))
                   => Len(ret.result.violations) = 3

\* the default policy and a created one are active and four rules triggered
C34_Witness ==
    /\ Evaluated
    /\ Len(getActivePolicies) = 2
    /\ Len(ret.result.violations) = 3
    /\ Len(ret.result.violations) + Len(ret.result.warnings) >= 4

EmptyContext == Context(None, None, None, None)

(***************************************************************************)
(* C38: a context without tlsVersion, cipherSuite, certificate and         *)
(* certificateExpired is allowed with no violation and no warning,         *)
(* whatever policies are active.                                           *)
(***************************************************************************)
C38_AbsentDataTriggersNothing ==
    (Evaluated /\ ret.context = EmptyContext) => ret.result = EmptyResult

\* the empty context was evaluated with the default policy and a policy with
\* the expired and untrusted rules active
C38_Witness ==
    /\ Evaluated
    /\ ret.context = EmptyContext
    /\ Len(getActivePolicies) = 2
    /\ getActivePolicies[2].rules = <<ExpiredRule, UntrustedRule>>

\* the active policies at the positions of keep, in activation order
RECURSIVE ActiveAt(_, _, _)
ActiveAt(active, keep, k) ==
    IF k > Len(active) THEN <<>>
    ELSE (IF k \in keep THEN <<active[k]>> ELSE <<>>) \o ActiveAt(active, keep, k + 1)
DeniedBy(active, context) ==
    ~evaluatePolicies(active, 1, context, EmptyResult).allowed

(***************************************************************************)
(* C39: evaluateConnection is monotone in the set of active policies: a    *)
(* context that a part of the active policies denies is denied by all of   *)
(* them, and only a deactivatePolicy or removePolicy step turns a denied   *)
(* context into an allowed one: createPolicy and activatePolicy never do.  *)
(***************************************************************************)
C39_ActivationMonotone ==
    /\ [](\A context \in Contexts :
            \A keep \in SUBSET (1..Len(getActivePolicies)) :
                DeniedBy(ActiveAt(getActivePolicies, keep, 1), context)
                    => ~evaluateConnection(context).allowed)
    /\ [][ ret'.op \notin {"deactivatePolicy", "removePolicy"}
              => \A context \in Contexts :
                    ~evaluateConnection(context).allowed
                        => DeniedBy(getActivePoliciesIn(policies', activePolicies'),
                                    context) ]_vars

\* a second policy was activated next to the default policy and a context
\* with TLS 1.0 is denied
C39_Witness ==
    /\ ret.op = "activatePolicy"
    /\ ret.result
    /\ Len(getActivePolicies) = 2
    /\ ~evaluateConnection(Context(Some("1.0"), None, None, None)).allowed

\* caller c is inside a route call
InRoute(c) == calls[c].pc \in {"connecting", "awaitConnect", "awaitRoute"}

(***************************************************************************)
(* C32: route's target network is request.preferredNetwork when given and  *)
(* otherwise the default network configured when route is called, whatever *)
(* request.securityLevel says: the handler route goes on with is the one   *)
(* registered for that target, and every response, success or failure, has *)
(* networkUsed equal to that target.                                       *)
(***************************************************************************)
C32_RouteTarget ==
    [][ /\ (calls[1] = Idle /\ InRoute(1)')
            => /\ calls'[1].networkType = Asked(calls'[1].request)
               /\ calls'[1].ref = RegRef(Asked(calls'[1].request))
        /\ (calls[1] = Idle /\ ret' # ret /\ ret'.op = "route")
            => ret'.response.networkUsed = Asked(ret'.request)
        /\ (InRoute(1) /\ InRoute(1)')
            => /\ calls'[1].networkType = calls[1].networkType
               /\ calls'[1].request = calls[1].request
        /\ (InRoute(1) /\ ret' # ret /\ ret'.op = "route")
            => /\ ret'.request = calls[1].request
               /\ ret'.response.networkUsed = calls[1].networkType ]_vars

\* with tor set as the default network and clearnet registered, a request of
\* level maximum without preferred network was routed through tor
C32_Witness ==
    /\ Routed
    /\ defaultNetwork = "tor"
    /\ has("clearnet") /\ handlers[IndexOf("clearnet")].enabled
    /\ ret.request.preferredNetwork = None
    /\ ret.request.securityLevel = Some("maximum")
    /\ ret.response.success
    /\ ret.response.networkUsed = "tor"

(***************************************************************************)
(* C37: after any sequence of registerHandler, unregisterHandler and       *)
(* setDefaultNetwork the default network has a registered handler, a       *)
(* setDefaultNetwork that threw was for an unregistered type, and the      *)
(* network selectNetworkForSecurity returns has a handler.                 *)
(***************************************************************************)
C37_DefaultNetworkRegistered ==
    /\ has(defaultNetwork)
    /\ (ret.op = "setDefaultNetwork" /\ ret.threw) => defaultNetwork # ret.type
    /\ ret.op = "selectNetworkForSecurity" => has(ret.result)

(***************************************************************************)
(* C40: after any sequence of registerHandle, importHandles, createAlias,  *)
(* removeAlias and removeHandle no normalised name is both a registered    *)
(* handle and an alias, every alias points to a registered handle, and     *)
(* resolve of a registered handle's name returns that handle.              *)
(***************************************************************************)
C40_HandlesAndAliasesDisjoint ==
    /\ DOMAIN handles \cap DOMAIN aliasMap = {}
    /\ \A alias \in DOMAIN aliasMap : aliasMap[alias] \in DOMAIN handles
    /\ \A name \in DOMAIN handles : resolve(name) = Some(handles[name])

\* the place of a task id in the order of creation
TaskNumber(id) == CHOOSE n \in 1..nextTaskId : id = "task_" \o ToString(n)
QueuedIds(queue) == {queue[k] : k \in 1..Len(queue)}
\* the places of the queue that hold the id of a pending task
PendingPlaces ==
    {k \in 1..Len(taskQueue) : tasks[taskQueue[k]].status = "pending"}

(***************************************************************************)
(* C31: the queue holds ids of stored tasks in creation order; getNextTask *)
(* returns the earliest-created task of the queue whose status is pending, *)
(* takes it and the tasks before it, which are no longer pending, off the  *)
(* queue, and returns null and empties the queue when no pending task is   *)
(* in it.  A task is returned once: a returned id has left the queue, and  *)
(* only createTask puts an id on the queue, a new one.                     *)
(***************************************************************************)
C31_GetNextTask ==
    /\ [](/\ QueuedIds(taskQueue) \subseteq DOMAIN tasks
          /\ \A j, k \in 1..Len(taskQueue) :
                j < k => TaskNumber(taskQueue[j]) < TaskNumber(taskQueue[k]))
    /\ [][ /\ ret'.op = "getNextTask" =>
                /\ tasks' = tasks
                /\ IF PendingPlaces = {}
                   THEN ret'.result = None /\ taskQueue' = <<>>
                   ELSE LET first == CHOOSE k \in PendingPlaces :
                                        \A j \in PendingPlaces : k <= j
                        IN  /\ ret'.result = Some(tasks[taskQueue[first]])
                            /\ \A j \in PendingPlaces :
                                  TaskNumber(taskQueue[first]) <= TaskNumber(taskQueue[j])
                            /\ taskQueue' = SubSeq(taskQueue, first + 1, Len(taskQueue))
                            /\ taskQueue[first] \notin QueuedIds(taskQueue')
           /\ DOMAIN tasks \subseteq DOMAIN tasks'
           /\ QueuedIds(taskQueue') \ QueuedIds(taskQueue)
                 \subseteq DOMAIN tasks' \ DOMAIN tasks ]_vars

\* task_2 was returned past the completed task_1, with task_3 left queued
C31_Witness ==
    /\ ret.op = "getNextTask"
    /\ IsSome(ret.result) /\ Get(ret.result).id = "task_2"
    /\ "task_1" \in DOMAIN tasks /\ tasks["task_1"].status = "completed"
    /\ taskQueue = <<"task_3">>

\* every pending task of the store, in creation order
PendingInCreationOrder ==
    LET ids == [k \in 1..nextTaskId |-> "task_" \o ToString(k)]
        pending == SelectSeq(ids, LAMBDA id : tasks[id].status = "pending")
    IN  [k \in 1..Len(pending) |-> tasks[pending[k]]]

(***************************************************************************)
(* C35: after any sequence of createTask, updateTaskStatus and getNextTask *)
(* getPendingTasks returns exactly the tasks whose status is pending, in   *)
(* creation order, those handed out by getNextTask or skipped by it        *)
(* included.                                                               *)
(***************************************************************************)
C35_PendingTasksListed ==
    ret.op = "getPendingTasks" => ret.result = PendingInCreationOrder

====
